---- MODULE Spec2Model ----
(***************************************************************************)
(* The chat session controller (ChatArea), the session / persona directory *)
(* (Layout) and the encrypted local store (StorageService) of the desktop  *)
(* chat client, as a state machine.  Every asynchronous handler is cut at  *)
(* its awaits: the code between two awaits is one atomic step, and other   *)
(* handlers may run between the steps.                                     *)
(***************************************************************************)
EXTENDS Integers, Sequences, FiniteSets, TLC

\* ------------------------------------------------------------------ bounds
\* session ids handed out by handleCreateChat
MaxChats == 2
\* persona ids handed out by the persona manager
MaxGems == 1
\* handleSend / handleRetry invocations in flight at the same time
MaxProcs == 2
\* media files written by saveImage
MaxFiles == 1
\* gateway (window.gemini.stream) calls issued
MaxCalls == 2
\* attachments of one message, where several are sent at once
MaxAttach == 2
\* credentials held in the settings
MaxKeys == 2
\* entries of the media directory
MaxEntries == 4
\* leading parent-directory segments of a media reference name
MaxUp == 2
MaxTools == 3
MaxModels == 3
MaxPieces == 2
MaxCreds == 3

\* ------------------------------------------------------- program constants
\* userMsg.slice(0, 30)
TitleLen == 30

NoChat == 0
NoGem == 0

\* ------------------------------------------------------------------- texts
\* A text is a sequence of characters; fixed program texts are one token.
Dots == <<".", ".", ".">>
Hi == <<"h", "i">>
SpHi == <<" ", "h", "i", " ">>
Blank == <<" ">>
\* slash commands, written word by word
ListModels == <<"/list", " ", "models">>
GenerateUsage == <<"/generate", " ", "m">>
GenerateImage == <<"/generate", " ", "m", " ", "p">>
LongText == [i \in 1..(TitleLen + 1) |-> IF i = TitleLen + 1 THEN "y" ELSE "x"]
NewChatTitle == <<"New Chat">>

\* what the user can type into the input surface
Inputs == {<<>>, Blank, SpHi, LongText}

IsSpace(c) == c = " "

RECURSIVE TrimLeft(_)
TrimLeft(s) == IF s # <<>> /\ IsSpace(Head(s)) THEN TrimLeft(Tail(s)) ELSE s

RECURSIVE TrimRight(_)
TrimRight(s) ==
    IF s # <<>> /\ IsSpace(s[Len(s)]) THEN TrimRight(SubSeq(s, 1, Len(s) - 1)) ELSE s

\* String.prototype.trim
Trim(s) == TrimRight(TrimLeft(s))

\* String.prototype.slice(0, n)
Slice(s, n) == SubSeq(s, 1, IF Len(s) < n THEN Len(s) ELSE n)

\* ------------------------------------------------------------- media refs
\* A media reference is <<scheme prefix, rest>>.
DataPrefix == "data:"
CachePrefix == "gemini-media://"

DataRef(n) == <<DataPrefix, n>>
CacheRef(f) == <<CachePrefix, f>>

\* img.startsWith(p)
StartsWith(img, p) == img[1] = p

\* img.replace('gemini-media://', '')
FileNameOf(img) == img[2]

\* the inline encodings the user can attach, in the order they are picked
Attachment(k) == DataRef(k)

\* ---------------------------------------------------------------- messages
UserMsg(text, imgs) == [role |-> "user", content |-> text, images |-> imgs]
ModelMsg(text, imgs) == [role |-> "model", content |-> text, images |-> imgs]
Placeholder == ModelMsg(Dots, <<>>)

IsPlaceholder(m) == m.role = "model" /\ m.content = Dots

\* `Error: ${result.error}\n\nTry a different model or check your API key.`
ResultErrorText == <<"Error: ", "result.error", "Try a different model">>
\* `Error: ${errorMessage}\n\nPlease check your API Key in Settings.`
SendThrowText == <<"Error: ", "thrown", "Please check your API Key">>
\* `Error: ${errorMessage}`
ThrowText == <<"Error: ", "thrown">>

Last(s) == s[Len(s)]
Front(s) == SubSeq(s, 1, Len(s) - 1)

\* ------------------------------------------------------------------- store
\* The session catalog is the value held under CHATS_KEY: a sequence of
\* sessions, most recently updated first.
NoModel == "none"
NoTitle == <<>>
Models == {"flash", "pro"}
DefaultModel == "flash"

ChatSession(id, gem) ==
    [id |-> id, title |-> NewChatTitle, messages |-> <<>>, modelId |-> NoModel,
     gemId |-> gem]

\* chats.findIndex(c => c.id === id), 1-based; 0 when absent
RECURSIVE FindIndexFrom(_, _, _)
FindIndexFrom(cs, id, i) ==
    IF i > Len(cs) THEN 0
    ELSE IF cs[i].id = id THEN i ELSE FindIndexFrom(cs, id, i + 1)

FindIndex(cs, id) == FindIndexFrom(cs, id, 1)

HasChat(cs, id) == FindIndex(cs, id) # 0
ChatOf(cs, id) == cs[FindIndex(cs, id)]
ChatIds(cs) == {cs[i].id : i \in 1..Len(cs)}

RemoveAt(s, i) == SubSeq(s, 1, i - 1) \o SubSeq(s, i + 1, Len(s))

\* StorageService.addChat
AddChat(cs, chat) == <<chat>> \o cs

\* a variant that puts back a session that is not in the catalog
UpdateChat_Upsert(cs, id, msgs, title, modelId) ==
    <<[id |-> id, title |-> title, modelId |-> modelId, gemId |-> NoGem,
       messages |-> msgs]>> \o SelectSeq(cs, LAMBDA c : c.id # id)
\* StorageService.updateChat: `if (title)` and `if (modelId)` skip empty values
UpdateChat(cs, id, msgs, title, modelId) ==
    LET index == FindIndex(cs, id) IN
    IF index = 0 THEN cs
    ELSE LET updated ==
               [cs[index] EXCEPT
                  !.messages = msgs,
                  !.title = IF title # NoTitle THEN title ELSE @,
                  !.modelId = IF modelId # NoModel THEN modelId ELSE @]
         IN <<updated>> \o RemoveAt(cs, index)

\* StorageService.deleteChat
DeleteChat(cs, id) == SelectSeq(cs, LAMBDA c : c.id # id)

\* StorageService.addGem / deleteGem, on the set of persona ids
AddGem(gs, g) == gs \cup {g}
DeleteGem(gs, g) == gs \ {g}

\* the instruction text of persona g
GemInstruction(g) == <<"instruction of gem", g>>
NoInstruction == <<>>

\* ------------------------------------------------- StorageService: blobs
\* JavaScript values that pass through the store: null, arrays and objects.
JsNull == [kind |-> "null", v |-> <<>>]
JsArray(seq) == [kind |-> "array", v |-> seq]
JsObject(rec) == [kind |-> "object", v |-> rec]

\* `if (decrypted)`: null is falsy, every array and object is truthy
Truthy(j) == j.kind # "null"

SECRET_KEY == "gemini-native-local-storage-secret"

\* localStorage keys and the item getItem answers for a key never written
CHATS_KEY == "gemini_chats_encrypted"
SETTINGS_KEY == "gemini_settings"
GEMS_KEY == "gemini_gems"
StorageKeys == {CHATS_KEY, SETTINGS_KEY, GEMS_KEY}
NoItem == <<"null">>
EmptyStorage == [k \in StorageKeys |-> NoItem]

\* JSON.stringify / JSON.parse: a JSON text is <<"json", value>>; parse throws
\* on any other text
Stringify(j) == <<"json", j>>
ParseThrows(text) == text[1] # "json"
Parse(text) == text[2]

\* CryptoJS.AES.encrypt(json, key).toString(): <<"aes", key, json>>
EncryptWith(key, j) == <<"aes", key, Stringify(j)>>

\* a variant that encrypts under another passphrase
Encrypt_OtherKey(j) == EncryptWith("another secret", j)
\* StorageService.encrypt
Encrypt(j) == EncryptWith(SECRET_KEY, j)

\* StorageService.decrypt: null unless the item is a ciphertext under
\* SECRET_KEY that holds a JSON text
Decrypt(raw) ==
    IF raw[1] = "aes" /\ raw[2] = SECRET_KEY /\ ~ParseThrows(raw[3])
    THEN Parse(raw[3])
    ELSE JsNull

\* the fallback of the getters: JSON.parse(raw) of an item written in plain
\* text by an earlier version; null when it throws
ParsePlain(raw) == IF ParseThrows(raw) THEN JsNull ELSE Parse(raw)

\* defaultSettings of getSettings; the empty id '' is NoKeyId
NoKeyId == <<>>
DefaultSettings ==
    [apiKeys |-> <<>>, activeKeyId |-> NoKeyId, activeModel |-> "gemini-1.5-flash",
     theme |-> "dark", username |-> "User", globalInstructions |-> ""]

\* what getChats / getGems return for the item raw, and whether they write
\* the value back (migration of a plain-text item)
GetArrayMigrates(raw) ==
    raw # NoItem /\ ~Truthy(Decrypt(raw)) /\ ParsePlain(raw).kind = "array"
GetArray(raw) ==
    IF raw = NoItem THEN JsArray(<<>>)
    ELSE IF Truthy(Decrypt(raw)) THEN Decrypt(raw)
    ELSE IF ParsePlain(raw).kind = "array" THEN ParsePlain(raw)
    ELSE JsArray(<<>>)

\* `plain && typeof plain === 'object'`: an array is an object too
IsObject(j) == j.kind \in {"object", "array"}

\* the same for getSettings
GetSettingsMigrates(raw) ==
    raw # NoItem /\ ~Truthy(Decrypt(raw)) /\ IsObject(ParsePlain(raw))
GetSettingsValue(raw) ==
    IF raw = NoItem THEN JsObject(DefaultSettings)
    ELSE IF Truthy(Decrypt(raw)) THEN Decrypt(raw)
    ELSE IF IsObject(ParsePlain(raw)) THEN ParsePlain(raw)
    ELSE JsObject(DefaultSettings)

\* a variant that strips the messages with their images
LiteChats_NoMessages(cs) == [i \in 1..Len(cs) |-> [cs[i] EXCEPT !.messages = <<>>]]
\* liteChats of saveChats: the catalog with the images of every message stripped
LiteChats(cs) ==
    [i \in 1..Len(cs) |->
        [cs[i] EXCEPT !.messages =
            [m \in 1..Len(cs[i].messages) |->
                [cs[i].messages[m] EXCEPT !.images = <<>>]]]]

\* no storage / backend operation has run
NoCall ==
    [op |-> "none", arg |-> JsNull, ret |-> JsNull, threw |-> FALSE,
     wrote |-> "nothing"]

\* ------------------------------------------------- main process: media cache
\* app.getPath('userData') and the directory images below it
UserData == << <<"userData", "">> >>
ImagesDir == Append(UserData, <<"images", "">>)

\* the files outside the media directory: one far away, one in a directory
\* next to the media directory whose name starts with "images"
SiblingDir == Append(UserData, <<"images-old", "">>)
OutsideFiles ==
    { << <<"etc", "">>, <<"passwd", "">> >>, Append(SiblingDir, <<"a", ".png">>) }

\* The directory <userData>/images: whether it exists and its entries in
\* readdir order; with it, the files outside it.  An entry has a name
\* <<base, extension>>, a size and a modification time.
NoDir == [exists |-> FALSE, entries |-> <<>>, outside |-> OutsideFiles]
Dir(entries) == [exists |-> TRUE, entries |-> entries, outside |-> OutsideFiles]

\* path.extname(file).toLowerCase()
ToLowerCase(ext) == IF ext = ".PNG" THEN ".png" ELSE ext
ExtName(file) == file[2]

\* validExtensions of gemini:listImages
ValidExtensions ==
    {".jpg", ".jpeg", ".png", ".gif", ".webp", ".svg", ".mp4", ".webm", ".mov", ".avi"}

\* a variant that keeps the empty files
ListedFile_AnySize(e) == ToLowerCase(ExtName(e.file)) \in ValidExtensions
\* the entries gemini:listImages keeps: valid extension, not empty
ListedFile(e) == ToLowerCase(ExtName(e.file)) \in ValidExtensions /\ e.size # 0

\* fileStats.sort((a, b) => b.mtime - a.mtime): stable, newest first
RECURSIVE InsertByMtime(_, _)
InsertByMtime(sorted, e) ==
    IF sorted = <<>> THEN <<e>>
    ELSE IF Head(sorted).mtime >= e.mtime
         THEN <<Head(sorted)>> \o InsertByMtime(Tail(sorted), e)
         ELSE <<e>> \o sorted
RECURSIVE SortByMtime(_)
SortByMtime(seq) ==
    IF seq = <<>> THEN <<>>
    ELSE InsertByMtime(SortByMtime(Front(seq)), Last(seq))

\* the answer of gemini:listImages
ListImages(dir) ==
    IF ~dir.exists THEN [success |-> TRUE, images |-> <<>>]
    ELSE LET fileStats == SortByMtime(SelectSeq(dir.entries, ListedFile))
         IN [success |-> TRUE,
             images |-> [i \in 1..Len(fileStats) |-> CacheRef(fileStats[i].file)]]

\* ------------------------------------------- main process: media references
\* A name is the text after "gemini-media://", held as the segments that
\* split('/') gives; a segment is <<base, extension>>.  A path is the list of
\* segments from the file system root.
Url(name) == [kind |-> "string", v |-> name]
DotDot == <<"..", "">>
EmptySeg == <<"", "">>
EncodedDotDot == <<"%2e%2e", "">>
MalformedSeg == <<"%", "">>

\* path.join(base, name): empty segments vanish, ".." steps out
RECURSIVE Join(_, _)
Join(base, name) ==
    IF name = <<>> THEN base
    ELSE LET seg == Head(name)
             next == IF seg = DotDot
                         THEN (IF base = <<>> THEN <<>> ELSE Front(base))
                     ELSE IF seg = EmptySeg THEN base
                     ELSE Append(base, seg)
         IN Join(next, Tail(name))

\* the files on disk, those of the media directory included
Files(dir) ==
    dir.outside \cup
    (IF dir.exists
        THEN {Append(ImagesDir, dir.entries[i].file) : i \in 1..Len(dir.entries)}
        ELSE {})

IsPrefix(p, q) == Len(p) <= Len(q) /\ SubSeq(q, 1, Len(p)) = p

IsDirectory(dir, p) ==
    \/ \E f \in Files(dir) : IsPrefix(p, f) /\ p # f
    \/ IsPrefix(p, UserData)
    \/ dir.exists /\ p = ImagesDir

\* fs.existsSync(p)
ExistsSync(dir, p) == p \in Files(dir) \/ IsDirectory(dir, p)

\* decodeURI(url): an escaped dot is a dot; a stray "%" throws
DecodeThrows(name) == \E i \in 1..Len(name) : name[i] = MalformedSeg
DecodeURI(name) ==
    [i \in 1..Len(name) |-> IF name[i] = EncodedDotDot THEN DotDot ELSE name[i]]

\* cleanFilename.replace(/\/+$/, '')
RECURSIVE StripTrailing(_)
StripTrailing(name) ==
    IF Len(name) > 1 /\ Last(name) = EmptySeg THEN StripTrailing(Front(name))
    ELSE name

\* decodedUrl.split('/').pop() || decodedUrl, then without trailing slashes
CleanFilename(decoded) ==
    StripTrailing(IF Last(decoded) # EmptySeg THEN <<Last(decoded)>> ELSE decoded)

\* the Content-Type the protocol handler answers for an extension
MimeType(ext) ==
    IF ext \in {".jpg", ".jpeg"} THEN "image/jpeg"
    ELSE IF ext = ".webp" THEN "image/webp"
    ELSE IF ext = ".gif" THEN "image/gif"
    ELSE IF ext = ".svg" THEN "image/svg+xml"
    ELSE "image/png"

\* a response; reads holds the files whose bytes went into it
Response(status, reads, mimeType) ==
    [status |-> status, reads |-> reads, mimeType |-> mimeType]

\* protocol.handle('gemini-media'): the response to a request for a name
Resolve(dir, name) ==
    IF DecodeThrows(name) THEN Response(500, {}, "")
    ELSE LET cleanFilename == CleanFilename(DecodeURI(name))
             filePath == Join(ImagesDir, cleanFilename)
         IN IF cleanFilename = <<EmptySeg>> THEN Response(400, {}, "")
            ELSE IF ~ExistsSync(dir, filePath) THEN Response(404, {}, "")
            ELSE IF filePath \notin Files(dir) THEN Response(500, {}, "")
            ELSE Response(200, {filePath},
                          MimeType(ToLowerCase(ExtName(Last(cleanFilename)))))

\* the answer of an ipc handler; reads holds the files it read
Answer(success, error, reads) ==
    [success |-> success, error |-> error, reads |-> reads]

\* a variant that keeps the last segment of the name only
SourcePath_LastSegment(url) == Join(ImagesDir, <<Last(FileNameOf(url))>>)
\* path.join(userDataPath, 'images', url.replace('gemini-media://', ''))
SourcePath(url) == Join(ImagesDir, FileNameOf(url))

\* gemini:download-media
DownloadMedia(dir, url, canceled) ==
    IF ~StartsWith(url, CachePrefix) THEN Answer(FALSE, "Invalid URL", {})
    ELSE LET sourcePath == SourcePath(url)
         IN IF ~ExistsSync(dir, sourcePath) THEN Answer(FALSE, "File not found", {})
            ELSE IF canceled THEN Answer(FALSE, "User cancelled", {})
            ELSE IF sourcePath \notin Files(dir) THEN Answer(FALSE, "EISDIR", {})
            ELSE Answer(TRUE, "", {sourcePath})

\* gemini:copy-image
CopyImage(dir, url) ==
    IF StartsWith(url, CachePrefix)
        THEN LET imagePath == SourcePath(url)
             IN IF ~ExistsSync(dir, imagePath)
                    THEN Answer(FALSE, "Image file not found", {})
                ELSE Answer(TRUE, "", {imagePath} \cap Files(dir))
    ELSE IF StartsWith(url, DataPrefix) THEN Answer(TRUE, "", {})
    ELSE Answer(FALSE, "Unsupported URL format", {})

\* text.startsWith(prefix) for the names of two path segments
SegStartsWith(seg, prefix) ==
    seg = prefix \/ (seg = <<"images-old", "">> /\ prefix = <<"images", "">>)

\* filePath.startsWith(q), on the texts of the two paths
PathStartsWith(p, q) ==
    /\ Len(p) >= Len(q)
    /\ SubSeq(p, 1, Len(q) - 1) = SubSeq(q, 1, Len(q) - 1)
    /\ SegStartsWith(p[Len(q)], q[Len(q)])

\* the directory without the file at path p
Unlinked(dir, p) ==
    [dir EXCEPT !.entries = SelectSeq(@, LAMBDA e : Append(ImagesDir, e.file) # p),
                !.outside = @ \ {p}]

\* gemini:deleteImage: the answer and the directory it leaves
DeleteImage(dir, filename) ==
    LET filePath == Join(ImagesDir, filename)
    IN IF ~PathStartsWith(filePath, ImagesDir)
          THEN [answer |-> Answer(FALSE, "Access denied", {}), dir |-> dir]
       ELSE IF ~ExistsSync(dir, filePath)
          THEN [answer |-> Answer(TRUE, "", {}), dir |-> dir]
       ELSE IF filePath \notin Files(dir)
          THEN [answer |-> Answer(FALSE, "EISDIR", {}), dir |-> dir]
       ELSE [answer |-> Answer(TRUE, "", {}), dir |-> Unlinked(dir, filePath)]

\* gemini:stream, one history part with an internalUrl: the part sent on
HydratePart(dir, url) ==
    LET filePath == SourcePath(url)
    IN IF filePath \in Files(dir)
           THEN [part |-> "inlineData", reads |-> {filePath},
                 mimeType |-> MimeType(ToLowerCase(ExtName(Last(FileNameOf(url)))))]
       ELSE [part |-> "null", reads |-> {}, mimeType |-> ""]

\* ------------------------------------------------ main process: gemini:stream
\* the parts of a content: inline data made from an attachment, a text, or
\* a reference still to be hydrated
InlinePart(img) == [kind |-> "inlineData", of |-> img]
TextPart(text) == [kind |-> "text", of |-> text]
InternalPart(img) == [kind |-> "internalUrl", of |-> img]

\* generateResponse: the images of the last message handed to the gateway
RequestImages(m) ==
    SelectSeq(m.images,
              LAMBDA img : StartsWith(img, DataPrefix) \/ StartsWith(img, CachePrefix))

\* imageParts: only an image that matches /^data:([^;]+);base64,/ gives a part
ImageParts(images) ==
    LET matches == SelectSeq(images, LAMBDA img : StartsWith(img, DataPrefix))
    IN [i \in 1..Len(matches) |-> InlinePart(matches[i])]

\* msgParts of gemini:stream: the image parts, then the text or, with no
\* part at all, an empty text
MsgParts(message, images) ==
    IF Trim(message) # <<>> THEN Append(ImageParts(images), TextPart(message))
    ELSE IF ImageParts(images) = <<>> THEN <<TextPart(<<>>)>>
    ELSE ImageParts(images)

\* convertMessageToApiFormat: a message of the transcript as a content
ConvertedImages(m) ==
    IF m.role = "model" THEN <<>>
    ELSE LET kept == SelectSeq(m.images,
                        LAMBDA img : StartsWith(img, DataPrefix)
                                     \/ StartsWith(img, CachePrefix))
         IN [i \in 1..Len(kept) |->
               IF StartsWith(kept[i], DataPrefix) THEN InlinePart(kept[i])
               ELSE InternalPart(kept[i])]

ConvertMessageToApiFormat(m) ==
    [role |-> m.role,
     parts |-> IF Trim(m.content) # <<>>
                  THEN Append(ConvertedImages(m), TextPart(m.content))
               ELSE IF ConvertedImages(m) = <<>> THEN <<TextPart(<<>>)>>
               ELSE ConvertedImages(m)]

\* processedHistory: a part with an internalUrl becomes the inline data of
\* its file, or null; the nulls are filtered out
NullPart == [kind |-> "null"]
HydratedPart(dir, part) ==
    IF part.kind # "internalUrl" THEN part
    ELSE LET hydrated == HydratePart(dir, part.of)
         IN IF hydrated.part = "null" THEN NullPart
            ELSE [kind |-> "inlineData", of |-> hydrated.reads,
                  mimeType |-> hydrated.mimeType]

ProcessedHistory(dir, history) ==
    [t \in 1..Len(history) |->
       [role |-> history[t].role,
        parts |-> SelectSeq([k \in 1..Len(history[t].parts) |->
                               HydratedPart(dir, history[t].parts[k])],
                            LAMBDA part : part # NullPart)]]

\* sanitizedHistory: a part that still has an internalUrl, and nothing
\* else, becomes a text; only texts and inline data are kept
ImageRemoved == <<"[Image removed]">>
SanitizedPart(part) ==
    IF part.kind = "internalUrl" THEN TextPart(ImageRemoved) ELSE part

SanitizedHistory(processed) ==
    [t \in 1..Len(processed) |->
       [role |-> IF processed[t].role = "assistant" THEN "model"
                 ELSE processed[t].role,
        parts |-> SelectSeq([k \in 1..Len(processed[t].parts) |->
                               SanitizedPart(processed[t].parts[k])],
                            LAMBDA part : part.kind \in {"text", "inlineData"})]]

\* what the request of an invocation submits as the new turn
SubmittedParts(p) ==
    MsgParts(Last(p.history).content, RequestImages(Last(p.history)))

\* const maxRetries = 3
MaxRetries == 3

\* what a rejected chat.sendMessageStream carries
Error(message, status) == [message |-> message, status |-> status]
Errors ==
    {Error(message, status) :
        message \in {"429", "Too Many Requests", "Resource exhausted", "Internal error"},
        status \in {429, 500}}

\* isRateLimit
IsRateLimit(error) ==
    \/ error.message = "429"
    \/ error.status = 429
    \/ error.message = "Too Many Requests"
    \/ error.message = "Resource exhausted"

\* a variant that stops one retry earlier
MayRetry_OneLess(error, retryCount) ==
    IsRateLimit(error) /\ retryCount < MaxRetries - 1
\* isRateLimit && retryCount < maxRetries
MayRetry(error, retryCount) == IsRateLimit(error) /\ retryCount < MaxRetries

\* a variant whose delay grows by 2 s a retry
Delay_Linear(retryCount) == retryCount * 2000
\* Math.pow(2, retryCount) * 1000
Delay(retryCount) == (2 ^ retryCount) * 1000

\* what the handler returns
NoResult == [success |-> FALSE, payload |-> 0, error |-> "none"]
Success(payload) == [success |-> TRUE, payload |-> payload, error |-> ""]
Failure(message) == [success |-> FALSE, payload |-> 0, error |-> message]

\* the tools declared to the chat model, and the default model id of each
ToolNames == {"generate_image", "generate_video"}
ModelToUse_Veo(name) == "veo-3.1-generate-001"
ModelToUse(name) ==
    IF name = "generate_image" THEN "imagen-4.0-generate-001"
    ELSE "veo-3.1-generate-001"

\* what a helper does: it saves a file and answers its path, answers without
\* success, or throws
HelperOutcomes == {"saved", "failed", "threw"}
ToolFailed == "(Tool execution failed)"

\* no call under way.  A call holds its position, retryCount, the number of
\* submissions made, the errors they were rejected with, the delays waited
\* out, the delay being waited and the result returned; and, of the
\* response, allFunctionCalls, the number of them gone through, the helper
\* invocations made, generatedImages and fullText.
NoStream ==
    [pc |-> "idle", retryCount |-> 0, submissions |-> 0, errors |-> <<>>,
     waited |-> <<>>, delay |-> 0, result |-> NoResult,
     allFunctionCalls |-> <<>>, step |-> 0, executed |-> <<>>,
     generatedImages |-> <<>>, fullText |-> <<>>]

\* ------------------------------------------- main process: generation helpers
\* a model name is written as the pieces its text is made of:
\* models/imagen-4.0-fast-generate-001 is models/, imagen, 4, .0, fast, ...
ModelName(pieces) == <<"models/">> \o pieces
Imagen4 == ModelName(<<"imagen", "4", ".0", "generate", "001">>)
Imagen4Fast == ModelName(<<"imagen", "4", ".0", "fast", "generate", "001">>)
Imagen3 == ModelName(<<"imagen", "3", ".0", "generate", "002">>)
Imagen3Fast == ModelName(<<"imagen", "3", ".0", "fast", "generate", "001">>)
Imagen2 == ModelName(<<"imagen", "2", ".0", "generate">>)
ImagenOther == ModelName(<<"imagen", "capability">>)
Veo31 == ModelName(<<"veo", "3", ".1", "generate", "preview">>)
Veo31Fast == ModelName(<<"veo", "3", ".1", "fast", "generate", "preview">>)
Veo30 == ModelName(<<"veo", "3", ".0", "generate", "001">>)
Veo2 == ModelName(<<"veo", "2", ".0", "generate", "001">>)
GeminiPro == ModelName(<<"gemini", "pro">>)

\* String.prototype.includes
Includes(text, pattern) ==
    \E i \in 0..(Len(text) - Len(pattern)) :
       SubSeq(text, i + 1, i + Len(pattern)) = pattern

\* models.find(m => m.name.includes(pattern)): the first one, or undefined
Undefined == <<>>
Find(models, pattern) ==
    LET found == SelectSeq(models, LAMBDA name : Includes(name, pattern))
    IN IF found = <<>> THEN Undefined ELSE Head(found)

\* a || b || ...: the first that is not undefined
RECURSIVE FirstDefined(_)
FirstDefined(values) ==
    IF values = <<>> THEN Undefined
    ELSE IF Head(values) # Undefined THEN Head(values)
    ELSE FirstDefined(Tail(values))

\* the patterns looked for, in this order
ImagePatterns ==
    << <<"imagen", "4">>, <<"imagen", "3", ".0", "generate", "002">>,
       <<"imagen", "3", ".0", "generate", "001">>, <<"imagen", "3", ".0", "fast">>,
       <<"imagen", "2">>, <<"imagen">> >>
VideoPatterns ==
    << <<"veo", "3", ".1">>, <<"veo", "3", ".0">>, <<"veo", "2", ".0">>, <<"veo">> >>
Patterns(kind) == IF kind = "image" THEN ImagePatterns ELSE VideoPatterns

\* fallback: the model the second attempt is made with, or undefined
Fallback(kind, models) ==
    FirstDefined([i \in 1..Len(Patterns(kind)) |-> Find(models, Patterns(kind)[i])])

\* fallback.name.replace('models/', '')
NewModelId(name) ==
    IF name # <<>> /\ Head(name) = "models/" THEN Tail(name) ELSE name

\* the errors an attempt throws: the response was not ok, with its status,
\* or it held no prediction
ApiError(status) == [message |-> <<"API Error:", status>>]
NoPredictions == [message |-> <<"No predictions returned">>]
ListingError == [message |-> <<"fetch failed">>]
AttemptErrors == {ApiError("404"), ApiError("429"), ApiError("500"), NoPredictions}

\* error.message.includes('404') || error.message.includes('not found')
IsNotFound_Any(error) == TRUE
IsNotFound(error) ==
    Includes(error.message, <<"404">>) \/ Includes(error.message, <<"not found">>)

\* the model id a generation is asked with
RequestedModel(kind) == IF kind = "image" THEN Tail(Imagen4) ELSE Tail(Veo31)

\* one call of generateImageHelper / generateVideoHelper: its position, the
\* model ids attempted, the catalog queries made, the first error, and the
\* result
NoError == [message |-> <<>>]
NewGeneration(kind) ==
    [pc |-> "attempting", kind |-> kind, attempts |-> <<>>, queries |-> 0,
     models |-> <<>>, listed |-> "no", firstError |-> NoError,
     result |-> NoResult]
Generating(generation) ==
    [op |-> "generate", arg |-> JsNull, ret |-> JsObject(generation),
     threw |-> FALSE, wrote |-> "nothing"]

\* ------------------------------------------------------------------- state
VARIABLES
    chats,                  \* persisted session catalog (CHATS_KEY)
    chatList,               \* Layout: chats state, refreshed by loadData
    gems,                   \* persisted persona catalog (ids)
    nextChat, nextGem,      \* fresh ids
    activeChatId,           \* Layout: active session, NoChat when none
    currentGemId,           \* Layout: persona bound to the next new session
    currentGemInstruction,  \* Layout: its instruction
    apiKey,                 \* TRUE when an active credential is configured
    showSettings,           \* Layout: settings dialog open
    messages,               \* ChatArea: in-memory transcript
    input,                  \* ChatArea: input surface
    attachments,            \* ChatArea: pending attachments
    loading,                \* ChatArea: loading flag
    isGenerating,           \* ChatArea: isGeneratingRef.current
    currentModel,           \* ChatArea: working model selection
    crashed,                \* a state updater threw: the error boundary took over
    procs,                  \* handleSend / handleRetry invocations in flight
    del,                    \* handleDeleteGem invocation in flight
    delChat,                \* handleDeleteChat invocation in flight
    nextFile,               \* next media file name
    calls,                  \* requests and commands handleSend / handleRetry took up
    cacheDeletes,           \* file names for which a cache delete was issued
    localStorage,           \* renderer key-value store: key -> raw item
    call,                   \* the last storage / backend operation and its outcome
    mediaDir,               \* main process: the directory <userData>/images
    stream                  \* main process: the gemini:stream call under way

vars ==
    <<chats, chatList, gems, nextChat, nextGem, activeChatId, currentGemId,
      currentGemInstruction, apiKey, showSettings, messages, input, attachments,
      loading, isGenerating, currentModel, crashed, procs, del, delChat,
      nextFile, calls, cacheDeletes, localStorage, call, mediaDir, stream>>

\* the state outside the renderer's controllers
backendVars == <<localStorage, call, mediaDir, stream>>

\* the state of the renderer's controllers
controllerVars ==
    <<chats, chatList, gems, nextChat, nextGem, activeChatId, currentGemId,
      currentGemInstruction, apiKey, showSettings, messages, input, attachments,
      loading, isGenerating, currentModel, crashed, procs, del, delChat,
      nextFile, calls, cacheDeletes>>

layoutVars == <<activeChatId, currentGemId, currentGemInstruction>>
inputVars == <<input, attachments>>
flagVars == <<loading, isGenerating>>

\* An invocation of handleSend or handleRetry: where it stands (pc) and the
\* values its closure holds.  created: handleSend created the session;
\* target: the role of the message handleRetry was invoked on.
FreeProc ==
    [pc |-> "free", kind |-> "none", chatId |-> NoChat, created |-> FALSE,
     target |-> "none", userMsg |-> <<>>, atts |-> <<>>, files |-> <<>>,
     history |-> <<>>, model |-> NoModel, instr |-> NoInstruction]

IdleDel == [pc |-> "idle", gemId |-> NoGem, todo |-> <<>>, ids |-> {}, active |-> NoChat]
IdleDelChat == [pc |-> "idle", id |-> NoChat, active |-> NoChat]

\* The state after mount: the catalogs are what an earlier run left in the
\* store, the transcript is empty, no session is active.
InitController(cs, gs, key) ==
    /\ chats = cs
    /\ chatList = cs
    /\ gems = gs
    /\ nextChat = Len(cs) + 1
    /\ nextGem = Cardinality(gs) + 1
    /\ activeChatId = NoChat
    /\ currentGemId = NoGem
    /\ currentGemInstruction = NoInstruction
    /\ apiKey = key
    /\ showSettings = FALSE
    /\ messages = <<>>
    /\ input = <<>>
    /\ attachments = <<>>
    /\ loading = FALSE
    /\ isGenerating = FALSE
    /\ currentModel = DefaultModel
    /\ crashed = FALSE
    /\ procs = [p \in 1..MaxProcs |-> FreeProc]
    /\ del = IdleDel
    /\ delChat = IdleDelChat
    /\ nextFile = 1
    /\ calls = 0
    /\ cacheDeletes = {}

InitWith(cs, gs, key) ==
    /\ InitController(cs, gs, key)
    /\ localStorage = EmptyStorage
    /\ call = NoCall
    /\ mediaDir = NoDir
    /\ stream = NoStream

\* a session of two completed turns, as an earlier run leaves it
OldSession(id, gem) ==
    [id |-> id, title |-> Hi, modelId |-> NoModel, gemId |-> gem,
     messages |-> <<UserMsg(Hi, <<>>), ModelMsg(<<"reply to", id>>, <<>>),
                    UserMsg(Hi, <<>>), ModelMsg(<<"reply to", id>>, <<>>)>>]

\* a session of one completed turn whose user message holds a cached and an
\* inline attachment
MediaSession(id) ==
    [id |-> id, title |-> Hi, modelId |-> NoModel, gemId |-> NoGem,
     messages |-> <<UserMsg(Hi, <<CacheRef(id), DataRef(id + MaxChats)>>),
                    ModelMsg(<<"reply to", id>>, <<>>)>>]

\* ------------------------------------------------------ ChatArea: helpers
\* the effect on [activeChatId]: what the transcript is reloaded to
LoadedMessages(cs, id) ==
    IF id # NoChat /\ HasChat(cs, id) THEN ChatOf(cs, id).messages ELSE <<>>

\* a variant that keeps the current selection, whatever the session stores
LoadedModel_KeepCurrent(cs, id, cur) == cur
\* the effect on [activeChatId]: a session's model override replaces the selection
LoadedModel(cs, id, cur) ==
    IF id # NoChat /\ HasChat(cs, id) /\ ChatOf(cs, id).modelId # NoModel
    THEN ChatOf(cs, id).modelId
    ELSE cur

\* setActiveChatId(id) followed by the effect it triggers (only on a change)
SetActive(id, cs) ==
    /\ activeChatId' = id
    /\ IF id # activeChatId
       THEN /\ messages' = LoadedMessages(cs, id)
            /\ currentModel' = LoadedModel(cs, id, currentModel)
       ELSE UNCHANGED <<messages, currentModel>>

\* [globalInstructions, systemInstruction].filter(Boolean).join('\n\n')
CombinedInstruction_GemFirst(global, gem) ==
    IF global # <<>> /\ gem # <<>> THEN gem \o <<"\n\n">> \o global
    ELSE IF global # <<>> THEN global
    ELSE gem
CombinedInstruction(global, gem) ==
    IF global # <<>> /\ gem # <<>> THEN global \o <<"\n\n">> \o gem
    ELSE IF global # <<>> THEN global
    ELSE gem

\* settings.globalInstructions of the default settings
GlobalInstructions == <<>>

\* the state updater of generateResponse: the placeholder becomes the final
\* message, a transcript that does not end with it gets the message appended
ReplaceOrPush(prev, m) ==
    IF IsPlaceholder(Last(prev)) THEN Append(Front(prev), m) ELSE Append(prev, m)

\* the state updater of handleSend's catch
SendCatchUpdate(prev) ==
    IF prev # <<>> /\ IsPlaceholder(Last(prev))
    THEN Append(Front(prev), [Last(prev) EXCEPT !.content = SendThrowText])
    ELSE Append(prev, ModelMsg(ThrowText, <<>>))

\* the state updater of handleRetry's catch: overwrites the last message
RetryCatchUpdate(prev) ==
    Append(Front(prev), [Last(prev) EXCEPT !.content = ThrowText])

\* savedImagePaths: the paths of the saves that succeeded, in order
RECURSIVE SavedImagePaths(_, _)
SavedImagePaths(files, oks) ==
    IF files = <<>> THEN <<>>
    ELSE (IF Head(oks) THEN <<CacheRef(Head(files))>> ELSE <<>>)
         \o SavedImagePaths(Tail(files), Tail(oks))

\* displayImages of handleSend
DisplayImages(savedImagePaths, currentAttachments) ==
    IF Len(savedImagePaths) > 0 THEN savedImagePaths
    ELSE IF Len(currentAttachments) > 0 THEN currentAttachments
    ELSE <<>>

\* a variant that writes to whichever session is active at completion time
CompletionChatId_Active(p) == activeChatId
\* the session a completion is written to: the id captured at the request
CompletionChatId(p) == p.chatId

\* ------------------------------------------------------------ model bounds
FreeSlots == {q \in 1..MaxProcs : procs[q].pc = "free"}
FreeSlot == CHOOSE q \in FreeSlots : \A r \in FreeSlots : q <= r

\* gateway calls issued or still to be issued by the invocations in flight
CallsReserved ==
    calls + Cardinality({q \in 1..MaxProcs : procs[q].pc = "saving"})

CanStart ==
    /\ FreeSlots # {}
    /\ CallsReserved < MaxCalls

\* ------------------------------------------------------ ChatArea: handleSend
\* An await of an already settled promise (`await onCreateChat(...)`, whose
\* callee awaits nothing) resumes in a microtask, before any other event is
\* handled: the step runs on to the first await of an IPC round trip.

\* a variant that creates the session without a persona link
CreatedChat_Unbound(newId) == ChatSession(newId, NoGem)
\* handleCreateChat: the new session, linked to the current persona
CreatedChat(newId) == ChatSession(newId, currentGemId)

\* userMsg.trim().split(/\s+/): the words of the message
Words(text) == SelectSeq(Trim(text), LAMBDA c : ~IsSpace(c))

\* userMsg.trim().startsWith('/')
StartsWithSlash(text) ==
    Trim(text) # <<>> /\ Head(Trim(text)) \in {"/list", "/generate", "/other"}

\* the slash command of a message: "list", "usage" (/generate with fewer
\* than 3 words), "generate", or "none" for the standard generation
Command(text) ==
    LET parts == Words(text)
    IN IF ~StartsWithSlash(text) THEN "none"
       ELSE IF parts[1] = "/list" /\ Len(parts) >= 2 /\ parts[2] = "models"
               THEN "list"
       ELSE IF parts[1] = "/generate"
               THEN (IF Len(parts) < 3 THEN "usage" ELSE "generate")
       ELSE "none"

\* the texts the slash commands answer with
HelpMsg == <<"**Usage:** /generate [model_id] [prompt]">>
CommandText(command, outcome) ==
    IF command = "list"
       THEN (IF outcome = "success" THEN <<"### Available Models (All)">>
             ELSE IF outcome = "failure" THEN <<"Error listing models: ", "res.error">>
             ELSE ThrowText)
    ELSE IF outcome = "success" THEN <<>>
    ELSE IF outcome = "failure" THEN <<"Generation failed: ", "res.error">>
    ELSE <<"Generation error: ", "thrown">>

\* the reference of a file that the main process generated
GeneratedPath == CacheRef(0)

\* an invocation that awaits listModels or generateImage
IsCommand(p) == p.kind = "send" /\ Command(p.userMsg) \in {"list", "generate"}

\* the part of handleSend from the optimistic user message to the gateway
\* call, on the catalog cs; the usage text of /generate is answered without
\* a call, and handleSend returns
Commit(slot, p, cs, currentMessages, displayImages) ==
    LET newMessages == Append(currentMessages, UserMsg(p.userMsg, displayImages))
        first == UpdateChat(cs, p.chatId, newMessages, NoTitle, NoModel)
        titled ==
            IF Len(currentMessages) = 0
            THEN UpdateChat(first, p.chatId, newMessages, Slice(p.userMsg, TitleLen),
                            NoModel)
            ELSE first
        finalMessages == Append(newMessages, ModelMsg(HelpMsg, <<>>))
    IN IF Command(p.userMsg) = "usage"
          THEN /\ messages' = finalMessages
               /\ chats' = UpdateChat(titled, p.chatId, finalMessages, NoTitle, NoModel)
               /\ chatList' = chats'
               /\ loading' = FALSE
               /\ isGenerating' = FALSE
               /\ calls' = calls + 1
               /\ procs' = [procs EXCEPT ![slot] = FreeProc]
       ELSE /\ messages' = Append(newMessages, Placeholder)
            /\ chats' = titled
            /\ chatList' = titled
            /\ loading' = TRUE
            /\ isGenerating' = isGenerating
            /\ calls' = calls + 1
            /\ procs' = [procs EXCEPT ![slot] =
                           [p EXCEPT !.pc = "calling", !.history = newMessages]]

NewSend(chatId) ==
    [FreeProc EXCEPT
       !.kind = "send", !.chatId = chatId, !.created = (activeChatId = NoChat),
       !.userMsg = Trim(input),
       !.atts = attachments, !.model = currentModel,
       !.instr = CombinedInstruction(GlobalInstructions, currentGemInstruction)]

\* the textarea and the send button are disabled while loading
SendEnabled == ~crashed /\ ~loading

SendAccepted == ~(Trim(input) = <<>> /\ Len(attachments) = 0)

\* currentChatId of handleSend: the active session or the one it creates
SendChatId == IF activeChatId = NoChat THEN nextChat ELSE activeChatId

\* the catalog after `if (!currentChatId) currentChatId = await onCreateChat()`
SendCatalog ==
    IF activeChatId = NoChat THEN AddChat(chats, CreatedChat(nextChat)) ELSE chats

\* currentMessages of handleSend
SendCurrentMessages == IF activeChatId = NoChat THEN <<>> ELSE messages

\* handleSend with nothing to send: returns at once
SendRejected ==
    /\ SendEnabled
    /\ ~SendAccepted
    /\ UNCHANGED vars

\* handleSend without a credential: opens the settings
SendNoKey ==
    /\ SendEnabled
    /\ SendAccepted
    /\ ~apiKey
    /\ showSettings' = TRUE
    /\ UNCHANGED <<backendVars, chats, chatList, gems, nextChat, nextGem, layoutVars, apiKey,
                   messages, inputVars, flagVars, currentModel, crashed, procs, del,
                   delChat, nextFile, calls, cacheDeletes>>

\* a variant that does not look at the credential
SendGuard_AnyKey ==
    /\ SendEnabled /\ SendAccepted /\ CanStart
    /\ activeChatId = NoChat => nextChat <= MaxChats
SendGuard ==
    /\ SendEnabled /\ SendAccepted /\ apiKey /\ CanStart
    /\ activeChatId = NoChat => nextChat <= MaxChats

\* window.gemini.saveImage issued for every attachment: names files[1..k]
SaveFiles(k) == [i \in 1..k |-> nextFile + i - 1]

\* handleSend with attachments, up to `await Promise.all(savePromises)`: the
\* session is created when none is active and the saves are issued
SendSaveUpTo(files) ==
    /\ SendGuard
    /\ Len(attachments) > 0
    /\ (nextFile - 1) + Len(attachments) <= files
    /\ chats' = SendCatalog
    /\ chatList' = IF activeChatId = NoChat THEN SendCatalog ELSE chatList
    /\ nextChat' = IF activeChatId = NoChat THEN nextChat + 1 ELSE nextChat
    /\ SetActive(SendChatId, SendCatalog)
    /\ procs' = [procs EXCEPT ![FreeSlot] =
                   [NewSend(SendChatId) EXCEPT
                      !.pc = "saving", !.history = SendCurrentMessages,
                      !.files = SaveFiles(Len(attachments))]]
    /\ nextFile' = nextFile + Len(attachments)
    /\ input' = <<>>
    /\ attachments' = <<>>
    /\ UNCHANGED <<backendVars, gems, nextGem, currentGemId, currentGemInstruction, apiKey,
                   showSettings, flagVars, crashed, del, delChat, calls, cacheDeletes>>

SendSave == SendSaveUpTo(MaxFiles)

\* handleSend without attachments: runs to the gateway call, creating the
\* session on the way when none is active
SendNow ==
    /\ SendGuard
    /\ Len(attachments) = 0
    /\ Commit(FreeSlot, NewSend(SendChatId), SendCatalog, SendCurrentMessages, <<>>)
    /\ activeChatId' = SendChatId
    /\ currentModel' = IF activeChatId = NoChat
                       THEN LoadedModel(SendCatalog, SendChatId, currentModel)
                       ELSE currentModel
    /\ nextChat' = IF activeChatId = NoChat THEN nextChat + 1 ELSE nextChat
    /\ input' = <<>>
    /\ attachments' = <<>>
    /\ UNCHANGED <<backendVars, gems, nextGem, currentGemId, currentGemInstruction, apiKey,
                   showSettings, crashed, del, delChat, nextFile,
                   cacheDeletes>>

\* handleSend resumes after `await Promise.all(savePromises)`: every save
\* answered success or failure
SendAfterSave(slot) ==
    /\ procs[slot].pc = "saving"
    /\ \E oks \in [1..Len(procs[slot].atts) -> BOOLEAN] :
          Commit(slot, procs[slot], chats, procs[slot].history,
                 DisplayImages(SavedImagePaths(procs[slot].files, oks),
                               procs[slot].atts))
    /\ UNCHANGED <<backendVars, gems, nextChat, nextGem, layoutVars, apiKey, showSettings,
                   inputVars, currentModel, crashed, del, delChat,
                   nextFile, cacheDeletes>>

\* handleSend resumes after a rejected save: the catch leaves savedImagePaths empty
SendAfterSaveRejected(slot) ==
    /\ procs[slot].pc = "saving"
    /\ Commit(slot, procs[slot], chats, procs[slot].history,
              DisplayImages(<<>>, procs[slot].atts))
    /\ UNCHANGED <<backendVars, gems, nextChat, nextGem, layoutVars, apiKey, showSettings,
                   inputVars, currentModel, crashed, del, delChat,
                   nextFile, cacheDeletes>>

\* ------------------------------------------------- ChatArea: generateResponse
\* what window.gemini.stream answers with on success: a text that depends on
\* the request, here on the session the request was issued for
ReplyText(chatId) == <<"reply to", chatId>>
Reply(chatId) == ModelMsg(ReplyText(chatId), <<>>)

Finish_SetLoadingOnly(slot) ==
    /\ procs' = [procs EXCEPT ![slot] = FreeProc]
    /\ loading' = FALSE
    /\ isGenerating' = isGenerating
\* the finally of handleSend and of handleRetry
Finish(slot) ==
    /\ procs' = [procs EXCEPT ![slot] = FreeProc]
    /\ loading' = FALSE
    /\ isGenerating' = FALSE

\* a state updater that reads the last message of an empty transcript throws
UpdaterThrows(prev) == prev = <<>>

\* the gateway answers {success: true}: the placeholder is reconciled and the
\* transcript sent plus the reply is written to the session of the request
CompleteSuccess(slot) ==
    /\ procs[slot].pc = "calling"
    /\ ~IsCommand(procs[slot])
    /\ IF UpdaterThrows(messages)
       THEN crashed' = TRUE /\ UNCHANGED messages
       ELSE messages' = ReplaceOrPush(messages, Reply(procs[slot].chatId)) /\ UNCHANGED crashed
    /\ chats' = IF CompletionChatId(procs[slot]) # NoChat
                THEN UpdateChat(chats, CompletionChatId(procs[slot]),
                                Append(procs[slot].history, Reply(procs[slot].chatId)), NoTitle, NoModel)
                ELSE chats
    /\ chatList' = IF CompletionChatId(procs[slot]) # NoChat THEN chats' ELSE chatList
    /\ Finish(slot)
    /\ UNCHANGED <<backendVars, gems, nextChat, nextGem, layoutVars, apiKey, showSettings,
                   inputVars, currentModel, del, delChat, nextFile, calls,
                   cacheDeletes>>

\* the gateway answers {success: false, error}
CompleteFailure(slot) ==
    /\ procs[slot].pc = "calling"
    /\ ~IsCommand(procs[slot])
    /\ IF UpdaterThrows(messages)
       THEN crashed' = TRUE /\ UNCHANGED messages
       ELSE /\ messages' = ReplaceOrPush(messages, ModelMsg(ResultErrorText, <<>>))
            /\ UNCHANGED crashed
    /\ Finish(slot)
    /\ UNCHANGED <<backendVars, chats, chatList, gems, nextChat, nextGem, layoutVars, apiKey, showSettings,
                   inputVars, currentModel, del, delChat, nextFile, calls,
                   cacheDeletes>>

\* the gateway call rejects: the catch of handleSend or of handleRetry
CompleteThrow(slot) ==
    /\ procs[slot].pc = "calling"
    /\ ~IsCommand(procs[slot])
    /\ IF procs[slot].kind = "send"
       THEN messages' = SendCatchUpdate(messages) /\ UNCHANGED crashed
       ELSE IF UpdaterThrows(messages)
            THEN crashed' = TRUE /\ UNCHANGED messages
            ELSE messages' = RetryCatchUpdate(messages) /\ UNCHANGED crashed
    /\ Finish(slot)
    /\ UNCHANGED <<backendVars, chats, chatList, gems, nextChat, nextGem, layoutVars, apiKey, showSettings,
                   inputVars, currentModel, del, delChat, nextFile, calls,
                   cacheDeletes>>

\* listModels or generateImage answers success or failure, or rejects: the
\* answer is put after the transcript sent and both are written to the
\* session
CompleteCommand(slot) ==
    /\ procs[slot].pc = "calling"
    /\ IsCommand(procs[slot])
    /\ \E outcome \in {"success", "failure", "throw"} :
          LET command == Command(procs[slot].userMsg)
              answer == ModelMsg(CommandText(command, outcome),
                                 IF command = "generate" /\ outcome = "success"
                                    THEN <<GeneratedPath>> ELSE <<>>)
              finalMessages == Append(procs[slot].history, answer)
          IN /\ messages' = finalMessages
             /\ chats' = IF procs[slot].chatId # NoChat
                         THEN UpdateChat(chats, procs[slot].chatId, finalMessages,
                                         NoTitle, NoModel)
                         ELSE chats
             /\ chatList' = IF procs[slot].chatId # NoChat THEN chats' ELSE chatList
    /\ Finish(slot)
    /\ UNCHANGED <<backendVars, gems, nextChat, nextGem, layoutVars, apiKey, showSettings,
                   inputVars, currentModel, crashed, del, delChat, nextFile, calls,
                   cacheDeletes>>

\* ----------------------------------------------------- ChatArea: handleRetry
\* the guard of handleRetry
RetryBusy == loading \/ isGenerating

\* a variant that regenerates for every target
RetryAllowed_Always(msgs, index) == TRUE
\* whether handleRetry goes on to regenerate for the message at index
RetryAllowed(msgs, index) ==
    IF msgs[index].role = "model"
    THEN index > 1 /\ msgs[index - 1].role = "user"
    ELSE msgs[index].role = "user"

\* historyToKeep of handleRetry
HistoryToKeep(msgs, index) ==
    IF msgs[index].role = "model"
    THEN SubSeq(msgs, 1, index - 1)
    ELSE SubSeq(msgs, 1, index)

\* handleRetry while a request is pending: returns at once
RetryIgnored(index) ==
    /\ ~crashed
    /\ index \in 1..Len(messages)
    /\ RetryBusy
    /\ UNCHANGED vars

\* handleRetry without a credential: opens the settings
RetryNoKey(index) ==
    /\ ~crashed
    /\ index \in 1..Len(messages)
    /\ ~RetryBusy
    /\ ~apiKey
    /\ showSettings' = TRUE
    /\ UNCHANGED <<backendVars, chats, chatList, gems, nextChat, nextGem, layoutVars, apiKey, messages,
                   inputVars, flagVars, currentModel, crashed, procs, del, delChat,
                   nextFile, calls, cacheDeletes>>

\* handleRetry on a model turn that has no user turn before it: refused
RetryRefused(index) ==
    /\ ~crashed
    /\ index \in 1..Len(messages)
    /\ ~RetryBusy
    /\ apiKey
    /\ ~RetryAllowed(messages, index)
    /\ UNCHANGED vars

\* handleRetry: truncates, puts the placeholder, issues the gateway call
Retry(index) ==
    /\ ~crashed
    /\ index \in 1..Len(messages)
    /\ ~RetryBusy
    /\ apiKey
    /\ CanStart
    /\ RetryAllowed(messages, index)
    /\ messages' = Append(HistoryToKeep(messages, index), Placeholder)
    /\ loading' = TRUE
    /\ isGenerating' = TRUE
    /\ calls' = calls + 1
    /\ procs' = [procs EXCEPT ![FreeSlot] =
                   [FreeProc EXCEPT
                      !.pc = "calling", !.kind = "retry", !.chatId = activeChatId,
                      !.target = messages[index].role,
                      !.history = HistoryToKeep(messages, index),
                      !.model = currentModel,
                      !.instr = CombinedInstruction(GlobalInstructions,
                                                    currentGemInstruction)]]
    /\ UNCHANGED <<backendVars, chats, chatList, gems, nextChat, nextGem, layoutVars, apiKey, showSettings,
                   inputVars, currentModel, crashed, del, delChat, nextFile,
                   cacheDeletes>>

\* ------------------------------------------------------ ChatArea: handleEdit
\* a variant that rewinds to the target itself, whatever its role
EditTarget_Self(msgs, index) == index
\* the user turn handleEdit resolves to; 0 when it does nothing
EditTarget(msgs, index) ==
    IF msgs[index].role = "model"
    THEN (IF index - 1 < 1 \/ msgs[index - 1].role # "user" THEN 0 ELSE index - 1)
    ELSE index

\* handleEdit: rewinds to before the resolved user turn
Edit(index) ==
    /\ ~crashed /\ ~loading
    /\ index \in 1..Len(messages)
    /\ LET u == EditTarget(messages, index) IN
       IF u = 0 THEN UNCHANGED <<input, messages, chats, chatList>>
       ELSE /\ input' = messages[u].content
            /\ messages' = SubSeq(messages, 1, u - 1)
            /\ chats' = IF activeChatId # NoChat
                        THEN UpdateChat(chats, activeChatId, SubSeq(messages, 1, u - 1),
                                        NoTitle, NoModel)
                        ELSE chats
            /\ chatList' = IF activeChatId # NoChat THEN chats' ELSE chatList
    /\ UNCHANGED <<backendVars, gems, nextChat, nextGem, layoutVars, apiKey, showSettings,
                   attachments, flagVars, currentModel, crashed, procs, del, delChat,
                   nextFile, calls, cacheDeletes>>

\* ----------------------------------------------- ChatArea: handleModelChange
ModelChange(newModelId) ==
    /\ ~crashed
    /\ newModelId # currentModel
    /\ currentModel' = newModelId
    /\ chats' = IF activeChatId # NoChat
                THEN UpdateChat(chats, activeChatId, messages, NoTitle, newModelId)
                ELSE chats
    /\ chatList' = IF activeChatId # NoChat THEN chats' ELSE chatList
    /\ UNCHANGED <<backendVars, gems, nextChat, nextGem, layoutVars, apiKey, showSettings,
                   messages, inputVars, flagVars, crashed, procs, del, delChat,
                   nextFile, calls, cacheDeletes>>

\* SettingsModal handleSaveSettings with another activeModel: the modelName
\* prop changes and the effect on [activeChatId, modelName] runs again
SaveActiveModel ==
    /\ ~crashed
    /\ messages' = LoadedMessages(chats, activeChatId)
    /\ currentModel' = LoadedModel(chats, activeChatId, currentModel)
    /\ UNCHANGED <<backendVars, chats, chatList, gems, nextChat, nextGem, layoutVars, apiKey,
                   showSettings, inputVars, flagVars, crashed, procs, del, delChat,
                   nextFile, calls, cacheDeletes>>

\* ------------------------------------------------------- ChatArea: the input
TypeInput(t) ==
    /\ ~crashed /\ ~loading
    /\ t # input
    /\ input' = t
    /\ UNCHANGED <<backendVars, chats, chatList, gems, nextChat, nextGem, layoutVars, apiKey, showSettings,
                   messages, attachments, flagVars, currentModel, crashed, procs,
                   del, delChat, nextFile, calls, cacheDeletes>>

\* handleFileSelect / paste: one more inline-encoded attachment
AddAttachmentUpTo(files) ==
    /\ ~crashed
    /\ Len(attachments) < files
    /\ attachments' = Append(attachments, Attachment(Len(attachments) + 1))
    /\ UNCHANGED <<backendVars, chats, chatList, gems, nextChat, nextGem, layoutVars, apiKey, showSettings,
                   messages, input, flagVars, currentModel, crashed, procs, del,
                   delChat, nextFile, calls, cacheDeletes>>

AddAttachment == AddAttachmentUpTo(MaxFiles)

\* ---------------------------------------------------------- Layout: handlers
\* handleSelectChat, for a session the sidebar lists
SelectChat(id) ==
    /\ ~crashed
    /\ id \in ChatIds(chatList)
    /\ SetActive(id, chats)
    /\ currentGemInstruction' = NoInstruction
    /\ currentGemId' = NoGem
    /\ UNCHANGED <<backendVars, chats, chatList, gems, nextChat, nextGem, apiKey, showSettings,
                   inputVars, flagVars, crashed, procs, del, delChat, nextFile, calls,
                   cacheDeletes>>

\* handleNewChat
NewChat ==
    /\ ~crashed
    /\ SetActive(NoChat, chats)
    /\ currentGemInstruction' = NoInstruction
    /\ currentGemId' = NoGem
    /\ UNCHANGED <<backendVars, chats, chatList, gems, nextChat, nextGem, apiKey, showSettings,
                   inputVars, flagVars, crashed, procs, del, delChat, nextFile, calls,
                   cacheDeletes>>

\* handleStartGemChat, for a persona the manager lists
StartGemChat(g) ==
    /\ ~crashed
    /\ g \in gems
    /\ SetActive(NoChat, chats)
    /\ currentGemInstruction' = GemInstruction(g)
    /\ currentGemId' = g
    /\ UNCHANGED <<backendVars, chats, chatList, gems, nextChat, nextGem, apiKey, showSettings,
                   inputVars, flagVars, crashed, procs, del, delChat, nextFile, calls,
                   cacheDeletes>>

\* GemManagerModal.handleSave in create mode: addGem, then loadData
CreateGem ==
    /\ ~crashed
    /\ nextGem <= MaxGems
    /\ gems' = AddGem(gems, nextGem)
    /\ nextGem' = nextGem + 1
    /\ chatList' = chats
    /\ UNCHANGED <<backendVars, chats, nextChat, layoutVars, apiKey, showSettings, messages,
                   inputVars, flagVars, currentModel, crashed, procs, del, delChat,
                   nextFile, calls, cacheDeletes>>

\* a variant that collects the name of every attachment, whatever its scheme
RECURSIVE ImagesToDelete_All(_)
ImagesToDelete_All(msgs) ==
    IF msgs = <<>> THEN {}
    ELSE {FileNameOf(Head(msgs).images[i]) : i \in 1..Len(Head(msgs).images)}
         \cup ImagesToDelete_All(Tail(msgs))
\* imagesToDelete of cleanupChatImages: the file names of the cache references
RECURSIVE ImagesToDelete(_)
ImagesToDelete(msgs) ==
    IF msgs = <<>> THEN {}
    ELSE {FileNameOf(Head(msgs).images[i]) :
            i \in {j \in 1..Len(Head(msgs).images) :
                     StartsWith(Head(msgs).images[j], CachePrefix)}}
         \cup ImagesToDelete(Tail(msgs))

\* cleanupChatImages awaits an IPC round trip only when there is an image to
\* delete; otherwise its caller resumes in a microtask
CleanupAwaits(chat) == ImagesToDelete(chat.messages) # {}

\* handleDeleteChat after the cleanup: deleteChat, loadData, reset of the pointer
DeleteChatEnd(id, active) ==
    /\ chats' = DeleteChat(chats, id)
    /\ chatList' = chats'
    /\ IF active = id
       THEN SetActive(NoChat, chats')
       ELSE UNCHANGED <<activeChatId, messages, currentModel>>
    /\ delChat' = IdleDelChat

\* handleDeleteChat of a session without cache media: runs to its end
DeleteChatNow(id) ==
    /\ ~crashed
    /\ delChat.pc = "idle"
    /\ id \in ChatIds(chatList)
    /\ ~CleanupAwaits(ChatOf(chatList, id))
    /\ DeleteChatEnd(id, activeChatId)
    /\ UNCHANGED <<backendVars, gems, nextChat, nextGem, currentGemId, currentGemInstruction,
                   apiKey, showSettings, inputVars, flagVars, crashed, procs, del,
                   nextFile, calls, cacheDeletes>>

\* handleDeleteChat up to `await cleanupChatImages`: the cache deletes are issued
DeleteChatStart(id) ==
    /\ ~crashed
    /\ delChat.pc = "idle"
    /\ id \in ChatIds(chatList)
    /\ CleanupAwaits(ChatOf(chatList, id))
    /\ cacheDeletes' = cacheDeletes \cup ImagesToDelete(ChatOf(chatList, id).messages)
    /\ delChat' = [pc |-> "awaiting", id |-> id, active |-> activeChatId]
    /\ UNCHANGED <<backendVars, chats, chatList, gems, nextChat, nextGem, layoutVars, apiKey,
                   showSettings, messages, inputVars, flagVars, currentModel, crashed,
                   procs, del, nextFile, calls>>

\* handleDeleteChat after the await
DeleteChatFinish ==
    /\ delChat.pc = "awaiting"
    /\ DeleteChatEnd(delChat.id, delChat.active)
    /\ UNCHANGED <<backendVars, gems, nextChat, nextGem, currentGemId, currentGemInstruction,
                   apiKey, showSettings, inputVars, flagVars, crashed, procs, del,
                   nextFile, calls, cacheDeletes>>

\* how the deleteImage calls of one cleanup end: every one answers success,
\* one answers {success: false}, or one rejects
DeleteOutcomes == {"deleted", "failed", "rejected"}

\* a variant without the try / catch around the deletes
CleanupThrows_Rejected(outcome) == outcome = "rejected"
\* whether cleanupChatImages throws to its caller: its catch logs and returns
CleanupThrows(outcome) == FALSE

\* chatsToDelete of handleDeleteGem
ChatsToDelete(cs, gemId) == SelectSeq(cs, LAMBDA c : c.gemId = gemId)

\* the loop of handleDeleteGem over the sessions whose cleanup awaits nothing:
\* what is left of todo
RECURSIVE CascadeRest(_)
CascadeRest(todo) ==
    IF todo = <<>> \/ CleanupAwaits(Head(todo)) THEN todo ELSE CascadeRest(Tail(todo))

\* the catalog after deleteChat for the sessions of todo before rest
RECURSIVE CascadeCatalog(_, _, _)
CascadeCatalog(cs, todo, rest) ==
    IF todo = rest THEN cs
    ELSE CascadeCatalog(DeleteChat(cs, Head(todo).id), Tail(todo), rest)

\* handleDeleteGem from the session todo[1] on, on the catalog cs: runs to the
\* next cleanup that awaits its cache deletes, or to the end (deleteGem, reset
\* of the UI, loadData)
CascadeFrom(cs, todo, gemId, ids, active) ==
    LET rest == CascadeRest(todo)
        cs1 == CascadeCatalog(cs, todo, rest)
    IN /\ chats' = cs1
       /\ IF rest # <<>>
          THEN /\ cacheDeletes' = cacheDeletes \cup ImagesToDelete(Head(rest).messages)
               /\ del' = [pc |-> "awaiting", gemId |-> gemId, todo |-> rest,
                          ids |-> ids, active |-> active]
               /\ UNCHANGED <<chatList, gems, activeChatId, messages, currentModel,
                              currentGemInstruction, currentGemId>>
          ELSE /\ gems' = DeleteGem(gems, gemId)
               /\ chatList' = cs1
               /\ IF active # NoChat /\ active \in ids
                  THEN /\ SetActive(NoChat, cs1)
                       /\ currentGemInstruction' = NoInstruction
                       /\ currentGemId' = NoGem
                  ELSE UNCHANGED <<activeChatId, messages, currentModel,
                                   currentGemInstruction, currentGemId>>
               /\ del' = IdleDel
               /\ UNCHANGED cacheDeletes

\* handleDeleteGem, for a persona the manager lists
DeleteGemStart(gemId) ==
    /\ ~crashed
    /\ del.pc = "idle"
    /\ gemId \in gems
    /\ CascadeFrom(chats, ChatsToDelete(chatList, gemId), gemId,
                   ChatIds(ChatsToDelete(chatList, gemId)), activeChatId)
    /\ UNCHANGED <<backendVars, nextChat, nextGem, apiKey, showSettings, inputVars, flagVars,
                   crashed, procs, delChat, nextFile, calls>>

\* handleDeleteGem after `await cleanupChatImages(chat)`: deleteChat(chat.id),
\* then on with the loop
DeleteGemStep ==
    /\ del.pc = "awaiting"
    /\ \E outcome \in DeleteOutcomes :
          IF CleanupThrows(outcome)
          THEN /\ del' = IdleDel
               /\ UNCHANGED <<chats, chatList, gems, activeChatId, messages,
                              currentModel, currentGemInstruction, currentGemId,
                              cacheDeletes>>
          ELSE CascadeFrom(DeleteChat(chats, Head(del.todo).id), Tail(del.todo),
                           del.gemId, del.ids, del.active)
    /\ UNCHANGED <<backendVars, nextChat, nextGem, apiKey, showSettings, inputVars, flagVars,
                   crashed, procs, delChat, nextFile, calls>>

\* SettingsModal: a credential is added and made active / the last one is deleted
SetApiKey(present) ==
    /\ ~crashed
    /\ present # apiKey
    /\ apiKey' = present
    /\ UNCHANGED <<backendVars, chats, chatList, gems, nextChat, nextGem, layoutVars, showSettings,
                   messages, inputVars, flagVars, currentModel, crashed, procs, del,
                   delChat, nextFile, calls, cacheDeletes>>

\* SettingsModal onClose
CloseSettings ==
    /\ ~crashed
    /\ showSettings
    /\ showSettings' = FALSE
    /\ UNCHANGED <<backendVars, chats, chatList, gems, nextChat, nextGem, layoutVars, apiKey,
                   messages, inputVars, flagVars, currentModel, crashed, procs, del,
                   delChat, nextFile, calls, cacheDeletes>>

\* ------------------------------------------------ StorageService: operations
\* localStorage.setItem either stores the item or throws (quota exceeded):
\* fits tells which.

\* a save that returned
SaveCall(op, j, wrote) ==
    [op |-> op, arg |-> j, ret |-> JsNull, threw |-> FALSE, wrote |-> wrote]

\* a save whose setItem threw past it
ThrownCall(op, j) ==
    [op |-> op, arg |-> j, ret |-> JsNull, threw |-> TRUE, wrote |-> "nothing"]

\* a getter that returned j
GetCall(op, j) ==
    [op |-> op, arg |-> JsNull, ret |-> j, threw |-> FALSE, wrote |-> "nothing"]

\* the store after saveChats(cs): the catalog, or after a failed write the
\* catalog without images, or after a second failed write what it was
ChatsWritten(store, cs, fits, liteFits) ==
    IF fits THEN [store EXCEPT ![CHATS_KEY] = Encrypt(JsArray(cs))]
    ELSE IF liteFits THEN [store EXCEPT ![CHATS_KEY] = Encrypt(JsArray(LiteChats(cs)))]
    ELSE store

\* StorageService.saveChats
SaveChats(cs, fits, liteFits) ==
    /\ localStorage' = ChatsWritten(localStorage, cs, fits, liteFits)
    /\ call' = SaveCall("saveChats", JsArray(cs),
                        IF fits THEN "full" ELSE IF liteFits THEN "lite" ELSE "nothing")
    /\ UNCHANGED <<controllerVars, mediaDir, stream>>

\* StorageService.getChats
GetChats(fits, liteFits) ==
    LET raw == localStorage[CHATS_KEY] IN
    /\ localStorage' = IF GetArrayMigrates(raw)
                       THEN ChatsWritten(localStorage, ParsePlain(raw).v, fits, liteFits)
                       ELSE localStorage
    /\ call' = GetCall("getChats", GetArray(raw))
    /\ UNCHANGED <<controllerVars, mediaDir, stream>>

\* saveSettings / saveGems: encrypt, then setItem with nothing to catch it
SaveBlob(op, key, j, fits) ==
    /\ localStorage' = IF fits THEN [localStorage EXCEPT ![key] = Encrypt(j)]
                       ELSE localStorage
    /\ call' = IF fits THEN SaveCall(op, j, "full") ELSE ThrownCall(op, j)
    /\ UNCHANGED <<controllerVars, mediaDir, stream>>

\* StorageService.saveSettings
SaveSettings(settings, fits) ==
    SaveBlob("saveSettings", SETTINGS_KEY, JsObject(settings), fits)

\* StorageService.saveGems
SaveGems(gs, fits) == SaveBlob("saveGems", GEMS_KEY, JsArray(gs), fits)

\* getSettings / getGems: the value, written back when it was plain text; a
\* write back that throws is caught by the getter, which then returns the
\* default
GetBlob(op, key, value, default, migrates, fits) ==
    /\ localStorage' = IF migrates /\ fits
                       THEN [localStorage EXCEPT ![key] = Encrypt(value)]
                       ELSE localStorage
    /\ call' = IF migrates /\ ~fits THEN GetCall(op, default)
               ELSE GetCall(op, value)
    /\ UNCHANGED <<controllerVars, mediaDir, stream>>

\* StorageService.getSettings
GetSettings(fits) ==
    GetBlob("getSettings", SETTINGS_KEY, GetSettingsValue(localStorage[SETTINGS_KEY]),
            JsObject(DefaultSettings), GetSettingsMigrates(localStorage[SETTINGS_KEY]),
            fits)

\* StorageService.getGems
GetGems(fits) ==
    GetBlob("getGems", GEMS_KEY, GetArray(localStorage[GEMS_KEY]), JsArray(<<>>),
            GetArrayMigrates(localStorage[GEMS_KEY]), fits)

\* ------------------------------------------------- StorageService: inputs
Prefixes(seq) == {SubSeq(seq, 1, k) : k \in 0..Len(seq)}

\* a credential, a settings object, a persona record
ApiKey(n) == [id |-> <<"key", n>>, name |-> "name", key |-> <<"secret", n>>]
SettingsValues ==
    {[DefaultSettings EXCEPT !.apiKeys = ks, !.activeKeyId = a] :
        ks \in Prefixes([n \in 1..MaxKeys |-> ApiKey(n)]),
        a \in {NoKeyId, ApiKey(1).id}}
Gem(n) == [id |-> n, name |-> "name", icon |-> "icon",
           instruction |-> GemInstruction(n)]
GemCatalogs == Prefixes([n \in 1..MaxGems + 1 |-> Gem(n)])
ChatCatalogs ==
    Prefixes([n \in 1..MaxChats |->
                 IF n = 1 THEN MediaSession(n) ELSE OldSession(n, NoGem)])

\* SettingsModal: its settings state is what getSettings gave when it opened
\* and what it saved since
ModalSettings == GetSettingsValue(localStorage[SETTINGS_KEY]).v
KeyIds(settings) == {settings.apiKeys[i].id : i \in 1..Len(settings.apiKeys)}

\* updatedSettings of handleAddKey
AfterAdd(settings, newKey) ==
    [settings EXCEPT
        !.apiKeys = Append(@, newKey),
        !.activeKeyId = IF settings.activeKeyId # NoKeyId THEN settings.activeKeyId
                        ELSE newKey.id]

\* a variant that leaves the active id as it was
AfterDelete_KeepActive(settings, id) ==
    [settings EXCEPT !.apiKeys = SelectSeq(@, LAMBDA k : k.id # id)]
\* updatedSettings of handleDeleteKey
AfterDelete(settings, id) ==
    LET updatedKeys == SelectSeq(settings.apiKeys, LAMBDA k : k.id # id)
    IN [settings EXCEPT
           !.apiKeys = updatedKeys,
           !.activeKeyId = IF settings.activeKeyId = id
                              THEN (IF updatedKeys # <<>> THEN updatedKeys[1].id
                                    ELSE NoKeyId)
                           ELSE settings.activeKeyId]

\* handleAddKey: nothing without a name and a value; the id is fresh
AddKey(n, filled, fits) ==
    /\ ApiKey(n).id \notin KeyIds(ModalSettings)
    /\ IF filled THEN SaveSettings(AfterAdd(ModalSettings, ApiKey(n)), fits)
       ELSE UNCHANGED vars

\* handleDeleteKey, for a credential of the list
DeleteKey(n, fits) ==
    /\ ApiKey(n).id \in KeyIds(ModalSettings)
    /\ SaveSettings(AfterDelete(ModalSettings, ApiKey(n).id), fits)

\* handleSetActiveKey, for a credential of the list
SetActiveKey(n, fits) ==
    /\ ApiKey(n).id \in KeyIds(ModalSettings)
    /\ SaveSettings([ModalSettings EXCEPT !.activeKeyId = ApiKey(n).id], fits)

\* items an earlier version of the program left in plain text
LegacyStorage ==
    [k \in StorageKeys |->
        IF k = SETTINGS_KEY
            THEN Stringify(JsObject([DefaultSettings EXCEPT !.apiKeys = <<ApiKey(1)>>,
                                                            !.activeKeyId = ApiKey(1).id]))
        ELSE IF k = CHATS_KEY THEN Stringify(JsArray(<<MediaSession(1)>>))
        ELSE Stringify(JsArray(<<Gem(1)>>))]

\* items that are neither a ciphertext nor a JSON text
GarbageStorage == [k \in StorageKeys |-> <<"garbage">>]

\* items encrypted under another passphrase
ForeignStorage ==
    [k \in StorageKeys |-> EncryptWith("another secret", LegacyStorage[k][2])]

\* plain-text items of another shape: an object where a catalog is expected,
\* null where the settings are expected
MisshapenStorage ==
    [k \in StorageKeys |->
        IF k = SETTINGS_KEY THEN Stringify(JsNull)
        ELSE Stringify(JsObject(DefaultSettings))]

\* what an earlier run can have left in the store
StoredBefore ==
    {EmptyStorage, LegacyStorage, GarbageStorage, ForeignStorage, MisshapenStorage}

\* ------------------------------------------------ main process: operations
\* ipcMain.handle('gemini:listImages')
ListImagesCall ==
    /\ call' = [op |-> "listImages", arg |-> JsNull,
                ret |-> JsObject(ListImages(mediaDir)), threw |-> FALSE,
                wrote |-> "nothing"]
    /\ UNCHANGED <<controllerVars, localStorage, mediaDir, stream>>

\* directory entries: two pictures, an empty picture, a text file and a
\* picture with an upper-case extension as old as the second
Entry(base, ext, size, mtime) ==
    [file |-> <<base, ext>>, size |-> size, mtime |-> mtime]
Entries ==
    {Entry("a", ".png", 10, 1), Entry("b", ".png", 10, 2),
     Entry("zero", ".png", 0, 3), Entry("note", ".txt", 10, 4),
     Entry("c", ".PNG", 10, 2)}

\* the listings of at most n entries, in any readdir order
RECURSIVE Listings(_)
Listings(n) ==
    IF n = 0 THEN {<<>>}
    ELSE Listings(n - 1) \cup
         {Append(l, e) : l \in {x \in Listings(n - 1) : Len(x) = n - 1},
                         e \in Entries}

NoRepeat(l) == \A i \in 1..Len(l) : \A j \in 1..Len(l) : l[i] = l[j] => i = j
Directories == {NoDir} \cup {Dir(l) : l \in {x \in Listings(MaxEntries) : NoRepeat(x)}}

\* the steps out of a directory a name starts with, plain or escaped
RECURSIVE Ups(_)
Ups(n) ==
    IF n = 0 THEN {<<>>}
    ELSE Ups(n - 1) \cup
         {Append(up, seg) : up \in {x \in Ups(n - 1) : Len(x) = n - 1},
                            seg \in {DotDot, EncodedDotDot}}

\* the paths a name goes on with, and its end: nothing or a trailing slash
NamePaths ==
    {<<>>, << <<"a", ".png">> >>, << <<"passwd", "">> >>,
     << <<"etc", "">>, <<"passwd", "">> >>, <<MalformedSeg>>,
     << <<"images-old", "">>, <<"a", ".png">> >>}
NameEnds == {<<>>, <<EmptySeg>>}

\* the names: what split('/') gives is never empty
Names ==
    {IF name = <<>> THEN <<EmptySeg>> ELSE name :
        name \in {up \o path \o end :
                     up \in Ups(MaxUp), path \in NamePaths, end \in NameEnds}}

\* the urls handed to the ipc handlers
Urls == {CacheRef(name) : name \in Names} \cup {DataRef(1)}

\* the media directories the references are resolved in
RefDirectories ==
    {NoDir, Dir(<<>>), Dir(<<Entry("a", ".png", 10, 1)>>),
     Dir(<<Entry("a", ".png", 10, 1), Entry("passwd", "", 10, 2)>>)}

\* a backend operation that answered ret for arg
BackendCall(op, arg, ret) ==
    [op |-> op, arg |-> arg, ret |-> JsObject(ret), threw |-> FALSE,
     wrote |-> "nothing"]

\* protocol.handle('gemini-media')
ResolveCall ==
    \E name \in Names :
       /\ call' = BackendCall("resolve", Url(name), Resolve(mediaDir, name))
       /\ UNCHANGED <<controllerVars, localStorage, mediaDir, stream>>

\* ipcMain.handle('gemini:download-media')
DownloadMediaCall ==
    \E url \in Urls : \E canceled \in BOOLEAN :
       /\ call' = BackendCall("download-media", Url(url),
                              DownloadMedia(mediaDir, url, canceled))
       /\ UNCHANGED <<controllerVars, localStorage, mediaDir, stream>>

\* ipcMain.handle('gemini:copy-image')
CopyImageCall ==
    \E url \in Urls :
       /\ call' = BackendCall("copy-image", Url(url), CopyImage(mediaDir, url))
       /\ UNCHANGED <<controllerVars, localStorage, mediaDir, stream>>

\* ipcMain.handle('gemini:deleteImage')
DeleteImageCall ==
    \E filename \in Names :
       /\ call' = BackendCall("deleteImage", Url(filename),
                              DeleteImage(mediaDir, filename).answer)
       /\ mediaDir' = DeleteImage(mediaDir, filename).dir
       /\ UNCHANGED <<controllerVars, localStorage, stream>>

\* ipcMain.handle('gemini:stream'): the hydration of a history part
HydrateCall ==
    \E name \in Names :
       /\ call' = BackendCall("hydrate", Url(CacheRef(name)),
                              HydratePart(mediaDir, CacheRef(name)))
       /\ UNCHANGED <<controllerVars, localStorage, mediaDir, stream>>

\* the catalogs listModelsHelper may be answered with
CatalogNames ==
    {Imagen4, Imagen4Fast, Imagen3, Imagen3Fast, Imagen2, ImagenOther,
     Veo31, Veo31Fast, Veo30, Veo2, GeminiPro}
Catalogs ==
    {models \in UNION {[1..n -> CatalogNames] : n \in 0..MaxModels} :
        NoRepeat(models)}

\* generateImageHelper / generateVideoHelper is called
GenerateBegin ==
    /\ call.op = "generate" => call.ret.v.pc = "done"
    /\ \E kind \in {"image", "video"} :
          call' = Generating([NewGeneration(kind) EXCEPT
                                 !.attempts = <<RequestedModel(kind)>>])
    /\ UNCHANGED <<controllerVars, localStorage, mediaDir, stream>>

\* the first attempt returns, or throws: a not-found error is caught and
\* the catalog is asked for, any other error is thrown on
GenerateAttempted ==
    /\ call.op = "generate"
    /\ call.ret.v.pc = "attempting"
    /\ \/ call' = Generating([call.ret.v EXCEPT
                                 !.pc = "done", !.result = Success(1)])
       \/ \E error \in AttemptErrors :
             call' = Generating(
                IF IsNotFound(error)
                   THEN [call.ret.v EXCEPT !.pc = "listing",
                                           !.queries = @ + 1,
                                           !.firstError = error]
                ELSE [call.ret.v EXCEPT !.pc = "done",
                                        !.firstError = error,
                                        !.result = Failure(error.message)])
    /\ UNCHANGED <<controllerVars, localStorage, mediaDir, stream>>

\* listModelsHelper returns the catalog, or nothing when the response is
\* not ok, or throws; with a fallback the second attempt is made
GenerateListed ==
    /\ call.op = "generate"
    /\ call.ret.v.pc = "listing"
    /\ \/ call' = Generating([call.ret.v EXCEPT
                                 !.pc = "done", !.listed = "threw",
                                 !.result = Failure(ListingError.message)])
       \/ \E models \in Catalogs :
             LET fallback == Fallback(call.ret.v.kind, models)
             IN call' = Generating(
                   IF fallback # Undefined
                      THEN [call.ret.v EXCEPT
                               !.pc = "retrying", !.listed = "yes",
                               !.models = models,
                               !.attempts = Append(@, NewModelId(fallback))]
                   ELSE [call.ret.v EXCEPT
                            !.pc = "done", !.listed = "yes",
                            !.models = models,
                            !.result = Failure(call.ret.v.firstError.message)])
    /\ UNCHANGED <<controllerVars, localStorage, mediaDir, stream>>

\* the second attempt returns, or throws: its error is thrown on
GenerateRetried ==
    /\ call.op = "generate"
    /\ call.ret.v.pc = "retrying"
    /\ \/ call' = Generating([call.ret.v EXCEPT
                                 !.pc = "done", !.result = Success(2)])
       \/ \E error \in AttemptErrors :
             call' = Generating([call.ret.v EXCEPT
                                    !.pc = "done",
                                    !.result = Failure(error.message)])
    /\ UNCHANGED <<controllerVars, localStorage, mediaDir, stream>>

\* the instruction texts of the settings and of a persona: some pieces of
\* text, a blank line among them
InstructionTexts ==
    UNION {[1..n -> {"be brief", "be kind", "\n\n"}] : n \in 0..MaxPieces}

\* handleSend / handleRetry: the system instruction of the request is made
\* of the global instructions and of the instruction of the persona
CombineCall ==
    \E global \in InstructionTexts : \E gem \in InstructionTexts :
       /\ call' = [op |-> "combine", arg |-> JsArray(<<global, gem>>),
                   ret |-> JsArray(CombinedInstruction(global, gem)),
                   threw |-> FALSE, wrote |-> "nothing"]
       /\ UNCHANGED <<controllerVars, localStorage, mediaDir, stream>>

\* the transcripts whose turns are converted and handed over as history
HistoryRefs ==
    {DataRef(1), CacheRef(<< <<"a", ".png">> >>), CacheRef(<< <<"b", ".jpg">> >>)}
HistoryImages ==
    {<<>>} \cup {<<r>> : r \in HistoryRefs}
           \cup {<<r, q>> : r \in HistoryRefs, q \in HistoryRefs}
Turns ==
    {[role |-> role, content |-> text, images |-> imgs] :
        role \in {"user", "model"}, text \in {<<>>, SpHi}, imgs \in HistoryImages}
Transcripts ==
    {<<m>> : m \in Turns}
       \cup {<<UserMsg(<<>>, <<r>>), m>> : r \in HistoryRefs, m \in Turns}

\* ipcMain.handle('gemini:stream'): the history that is handed to startChat
HistoryCall ==
    \E transcript \in Transcripts :
       LET history == [t \in 1..Len(transcript) |->
                         ConvertMessageToApiFormat(transcript[t])]
       IN /\ call' = [op |-> "history", arg |-> JsArray(transcript),
                      ret |-> JsArray(SanitizedHistory(
                                         ProcessedHistory(mediaDir, history))),
                      threw |-> FALSE, wrote |-> "nothing"]
          /\ UNCHANGED <<controllerVars, localStorage, mediaDir, stream>>

\* ipcMain.handle('gemini:stream'): up to the first submission
StreamBegin ==
    /\ stream.pc \in {"idle", "done"}
    /\ stream' = [NoStream EXCEPT !.pc = "submitting"]
    /\ UNCHANGED <<controllerVars, localStorage, call, mediaDir>>

\* chat.sendMessageStream resolves; the stream is read to its end, or the
\* reading throws and the outer catch answers
StreamSubmitted ==
    /\ stream.pc = "submitting"
    /\ \E delivered \in BOOLEAN :
          stream' = [stream EXCEPT
                        !.pc = "done",
                        !.submissions = @ + 1,
                        !.result = IF delivered THEN Success(stream.submissions + 1)
                                   ELSE Failure("stream")]
    /\ UNCHANGED <<controllerVars, localStorage, call, mediaDir>>

\* the function calls of a response, and its text
FunctionCalls ==
    LET names == ToolNames \cup {"unknown_tool"}
    IN UNION {[1..n -> names] : n \in 1..MaxTools}
ChunkTexts == {<<>>, <<"text">>}

\* chat.sendMessageStream resolves and the stream, read to its end, holds
\* function calls
StreamCalls ==
    /\ stream.pc = "submitting"
    /\ \E received \in FunctionCalls : \E text \in ChunkTexts :
          stream' = [stream EXCEPT
                        !.pc = "executing",
                        !.submissions = @ + 1,
                        !.allFunctionCalls = received,
                        !.fullText = text]
    /\ UNCHANGED <<controllerVars, localStorage, call, mediaDir>>

\* one turn of the loop over allFunctionCalls: the helper of the call is
\* awaited with the default model id; a call of another name does nothing
StreamToolCall ==
    /\ stream.pc = "executing"
    /\ stream.step < Len(stream.allFunctionCalls)
    /\ LET index == stream.step + 1
           name == stream.allFunctionCalls[index]
       IN IF name \in ToolNames
             THEN \E outcome \in HelperOutcomes :
                     stream' = [stream EXCEPT
                        !.step = index,
                        !.executed = Append(@, [call |-> index, name |-> name,
                                                model |-> ModelToUse(name),
                                                outcome |-> outcome]),
                        !.generatedImages = IF outcome = "saved"
                                               THEN Append(@, index) ELSE @,
                        !.fullText = IF outcome = "threw"
                                        THEN Append(@, ToolFailed) ELSE @]
          ELSE stream' = [stream EXCEPT !.step = index]
    /\ UNCHANGED <<controllerVars, localStorage, call, mediaDir>>

\* the loop is over: success, with fullText and generatedImages
StreamReturn ==
    /\ stream.pc = "executing"
    /\ stream.step = Len(stream.allFunctionCalls)
    /\ stream' = [stream EXCEPT !.pc = "done",
                                !.result = Success(stream.submissions)]
    /\ UNCHANGED <<controllerVars, localStorage, call, mediaDir>>

\* chat.sendMessageStream rejects: another attempt after a delay, or the
\* error is thrown to the outer catch
StreamRejected ==
    /\ stream.pc = "submitting"
    /\ \E error \in Errors :
          stream' = IF MayRetry(error, stream.retryCount)
                        THEN [stream EXCEPT
                                 !.pc = "waiting",
                                 !.submissions = @ + 1,
                                 !.errors = Append(@, error),
                                 !.retryCount = @ + 1,
                                 !.delay = Delay(stream.retryCount + 1)]
                    ELSE [stream EXCEPT
                             !.pc = "done",
                             !.submissions = @ + 1,
                             !.errors = Append(@, error),
                             !.result = Failure(error.message)]
    /\ UNCHANGED <<controllerVars, localStorage, call, mediaDir>>

\* the setTimeout of the retry fires
StreamDelayOver ==
    /\ stream.pc = "waiting"
    /\ stream' = [stream EXCEPT
                     !.pc = "submitting",
                     !.waited = Append(@, stream.delay),
                     !.delay = 0]
    /\ UNCHANGED <<controllerVars, localStorage, call, mediaDir>>

\* ------------------------------------------------------------ specification
Sends ==
    \/ SendRejected
    \/ SendSave
    \/ SendNow
    \/ \E slot \in 1..MaxProcs : SendAfterSave(slot)
    \/ \E slot \in 1..MaxProcs : SendAfterSaveRejected(slot)

Completions ==
    \/ \E slot \in 1..MaxProcs : CompleteSuccess(slot)
    \/ \E slot \in 1..MaxProcs : CompleteFailure(slot)
    \/ \E slot \in 1..MaxProcs : CompleteThrow(slot)

Retries ==
    \/ \E index \in 1..Len(messages) : RetryIgnored(index)
    \/ \E index \in 1..Len(messages) : RetryRefused(index)
    \/ \E index \in 1..Len(messages) : Retry(index)

\* The session controller with a credential configured: an empty catalog or
\* one session left by an earlier run.
Init ==
    \E cs \in {<<>>, <<OldSession(1, NoGem)>>} : InitWith(cs, {}, TRUE)

Next ==
    \/ Sends
    \/ Completions
    \/ Retries
    \/ \E index \in 1..Len(messages) : Edit(index)
    \/ \E t \in {Blank, SpHi} : TypeInput(t)
    \/ AddAttachment
    \/ \E id \in 1..MaxChats : SelectChat(id)
    \/ NewChat

Spec == Init /\ [][Next]_vars

\* The session / persona directory: personas are created, bound to new
\* conversations and deleted, sessions are created by sends and deleted.
InitDir == InitWith(<<>>, {}, TRUE)

NextDir ==
    \/ CreateGem
    \/ \E g \in 1..MaxGems : StartGemChat(g)
    \/ \E g \in 1..MaxGems : DeleteGemStart(g)
    \/ DeleteGemStep
    \/ \E id \in 1..MaxChats : DeleteChatNow(id)
    \/ \E id \in 1..MaxChats : DeleteChatStart(id)
    \/ DeleteChatFinish
    \/ \E id \in 1..MaxChats : SelectChat(id)
    \/ NewChat
    \/ \E t \in {SpHi} : TypeInput(t)
    \/ AddAttachment
    \/ SendSave
    \/ SendNow
    \/ \E slot \in 1..MaxProcs : SendAfterSave(slot)
    \/ \E slot \in 1..MaxProcs : CompleteSuccess(slot)
    \/ \E slot \in 1..MaxProcs : CompleteFailure(slot)

SpecDir == InitDir /\ [][NextDir]_vars

\* Session deletion: a catalog an earlier run left, holding sessions with
\* cached and inline media; sessions are selected, extended and deleted.

InitDel ==
    \E cs \in {<<MediaSession(1), MediaSession(2)>>,
                <<MediaSession(1), OldSession(2, NoGem)>>} : InitWith(cs, {}, TRUE)

NextDel ==
    \/ \E id \in 1..MaxChats : DeleteChatNow(id)
    \/ \E id \in 1..MaxChats : DeleteChatStart(id)
    \/ DeleteChatFinish
    \/ \E id \in 1..MaxChats : SelectChat(id)
    \/ NewChat
    \/ \E t \in {SpHi} : TypeInput(t)
    \/ SendNow
    \/ \E slot \in 1..MaxProcs : CompleteSuccess(slot)
    \/ \E slot \in 1..MaxProcs : CompleteFailure(slot)

SpecDel == InitDel /\ [][NextDel]_vars

\* Model selection: sessions with and without a model override; the model is
\* changed in the chat header and in the settings, sessions are selected and
\* extended.
InitModel ==
    \E cs \in {<<OldSession(1, NoGem)>>,
                <<OldSession(1, NoGem), [OldSession(2, NoGem) EXCEPT !.modelId = "pro"]>>} :
        InitWith(cs, {}, TRUE)

NextModel ==
    \/ \E m \in Models : ModelChange(m)
    \/ SaveActiveModel
    \/ \E id \in 1..MaxChats : SelectChat(id)
    \/ NewChat
    \/ \E t \in {SpHi} : TypeInput(t)
    \/ SendNow
    \/ \E slot \in 1..MaxProcs : CompleteSuccess(slot)
    \/ \E slot \in 1..MaxProcs : CompleteFailure(slot)
    \/ \E index \in 1..Len(messages) : Retry(index)
    \/ \E index \in 1..Len(messages) : Edit(index)

SpecModel == InitModel /\ [][NextModel]_vars

\* Sending attachments: several attachments are picked and sent in one
\* message; each save answers success or failure.
InitSave == InitWith(<<>>, {}, TRUE)

NextSave ==
    \/ AddAttachmentUpTo(MaxAttach)
    \/ \E t \in {SpHi} : TypeInput(t)
    \/ SendSaveUpTo(MaxAttach)
    \/ SendNow
    \/ \E slot \in 1..MaxProcs : SendAfterSave(slot)
    \/ \E slot \in 1..MaxProcs : SendAfterSaveRejected(slot)
    \/ \E slot \in 1..MaxProcs : CompleteSuccess(slot)
    \/ \E slot \in 1..MaxProcs : CompleteFailure(slot)
    \/ NewChat

SpecSave == InitSave /\ [][NextSave]_vars

\* Credentials: the program starts without an active credential; one is
\* added or removed in the settings while messages are sent and retried.
InitKey ==
    \E cs \in {<<>>, <<OldSession(1, NoGem)>>} : InitWith(cs, {}, FALSE)

NextKey ==
    \/ SendNoKey
    \/ \E index \in 1..Len(messages) : RetryNoKey(index)
    \/ \E present \in BOOLEAN : SetApiKey(present)
    \/ CloseSettings
    \/ \E t \in {SpHi} : TypeInput(t)
    \/ AddAttachment
    \/ \E id \in 1..MaxChats : SelectChat(id)
    \/ SendSave
    \/ SendNow
    \/ \E slot \in 1..MaxProcs : SendAfterSave(slot)
    \/ \E slot \in 1..MaxProcs : CompleteSuccess(slot)
    \/ \E slot \in 1..MaxProcs : CompleteFailure(slot)
    \/ \E index \in 1..Len(messages) : Retry(index)

SpecKey == InitKey /\ [][NextKey]_vars

\* The storage layer: the three blobs are saved and read back; a write of the
\* key-value store succeeds or exceeds the quota.
InitStore ==
    /\ InitController(<<>>, {}, TRUE)
    /\ localStorage \in StoredBefore
    /\ call = NoCall
    /\ mediaDir = NoDir
    /\ stream = NoStream

NextStore ==
    \/ \E cs \in ChatCatalogs : \E fits \in BOOLEAN : \E liteFits \in BOOLEAN :
          SaveChats(cs, fits, liteFits)
    \/ \E fits \in BOOLEAN : \E liteFits \in BOOLEAN : GetChats(fits, liteFits)
    \/ \E settings \in SettingsValues : \E fits \in BOOLEAN :
          SaveSettings(settings, fits)
    \/ \E fits \in BOOLEAN : GetSettings(fits)
    \/ \E gs \in GemCatalogs : \E fits \in BOOLEAN : SaveGems(gs, fits)
    \/ \E fits \in BOOLEAN : GetGems(fits)

SpecStore == InitStore /\ [][NextStore]_vars

\* The media cache: some directory is found on disk and listed.
InitList ==
    /\ InitController(<<>>, {}, TRUE)
    /\ localStorage = EmptyStorage
    /\ call = NoCall
    /\ mediaDir \in Directories
    /\ stream = NoStream

NextList == ListImagesCall

SpecList == InitList /\ [][NextList]_vars

\* Media references: a directory is found on disk and references are resolved.
InitRef ==
    /\ InitController(<<>>, {}, TRUE)
    /\ localStorage = EmptyStorage
    /\ call = NoCall
    /\ mediaDir \in RefDirectories
    /\ stream = NoStream

NextRef ==
    \/ ResolveCall
    \/ DownloadMediaCall
    \/ CopyImageCall
    \/ HydrateCall

SpecRef == InitRef /\ [][NextRef]_vars

\* History: a directory is found on disk and transcripts are handed over.
InitHistory ==
    /\ InitController(<<>>, {}, TRUE)
    /\ localStorage = EmptyStorage
    /\ call = NoCall
    /\ mediaDir \in RefDirectories
    /\ stream = NoStream

NextHistory == HistoryCall

SpecHistory == InitHistory /\ [][NextHistory]_vars

\* The gateway: stream calls, one after the other.
InitStream == InitWith(<<>>, {}, TRUE)

NextStream ==
    \/ StreamBegin
    \/ StreamSubmitted
    \/ StreamRejected
    \/ StreamDelayOver

SpecStream == InitStream /\ [][NextStream]_vars

\* The controller under fairness: messages and slash commands are sent and
\* retried while sessions are selected; a call that was issued is answered.
Resumes(slot) ==
    \/ SendAfterSave(slot)
    \/ SendAfterSaveRejected(slot)
    \/ CompleteSuccess(slot)
    \/ CompleteFailure(slot)
    \/ CompleteThrow(slot)
    \/ CompleteCommand(slot)

NextLive ==
    \/ \E t \in {SpHi, ListModels, GenerateUsage, GenerateImage} : TypeInput(t)
    \/ AddAttachment
    \/ SendSave
    \/ SendNow
    \/ \E slot \in 1..MaxProcs : Resumes(slot)
    \/ \E index \in 1..Len(messages) : Retry(index)
    \/ \E id \in 1..MaxChats : SelectChat(id)
    \/ NewChat

InitLive == InitWith(<<>>, {}, TRUE)

SpecLive ==
    /\ InitLive
    /\ [][NextLive]_vars
    /\ \A slot \in 1..MaxProcs : WF_vars(Resumes(slot))

\* Credentials: from the default settings, credentials are added, deleted
\* and made active in the settings dialog.
NextCred ==
    \/ \E n \in 1..MaxCreds : \E filled \in BOOLEAN : \E fits \in BOOLEAN :
          AddKey(n, filled, fits)
    \/ \E n \in 1..MaxCreds : \E fits \in BOOLEAN : DeleteKey(n, fits)
    \/ \E n \in 1..MaxCreds : \E fits \in BOOLEAN : SetActiveKey(n, fits)

SpecCred == InitStream /\ [][NextCred]_vars

\* Instructions: system instructions are made for requests.
NextInstr == CombineCall

SpecInstr == InitStream /\ [][NextInstr]_vars

\* Generation: image and video generations, one after the other.
NextGenerate ==
    \/ GenerateBegin
    \/ GenerateAttempted
    \/ GenerateListed
    \/ GenerateRetried

SpecGenerate == InitStream /\ [][NextGenerate]_vars

\* The gateway with tools: the responses may hold function calls.
NextTools ==
    \/ NextStream
    \/ StreamCalls
    \/ StreamToolCall
    \/ StreamReturn

SpecTools == InitStream /\ [][NextTools]_vars

\* The gateway under fairness: a submission is answered and a timer fires.
SpecStreamLive ==
    /\ InitStream
    /\ [][NextStream]_vars
    /\ WF_vars(StreamSubmitted \/ StreamRejected)
    /\ WF_vars(StreamDelayOver)

\* The cascade: a catalog an earlier run left whose sessions hold cached
\* media and are linked to the one persona; the persona is deleted while
\* sessions are selected and extended.
InitCascade ==
    \E cs \in {<<[MediaSession(1) EXCEPT !.gemId = 1],
                  [MediaSession(2) EXCEPT !.gemId = 1]>>,
                <<[MediaSession(1) EXCEPT !.gemId = 1], OldSession(2, 1)>>,
                <<[MediaSession(1) EXCEPT !.gemId = 1], MediaSession(2)>>} :
        InitWith(cs, {1}, TRUE)

NextCascade ==
    \/ \E g \in 1..MaxGems : DeleteGemStart(g)
    \/ DeleteGemStep
    \/ \E g \in 1..MaxGems : StartGemChat(g)
    \/ \E id \in 1..MaxChats : SelectChat(id)
    \/ NewChat
    \/ \E t \in {SpHi} : TypeInput(t)
    \/ SendNow
    \/ \E slot \in 1..MaxProcs : CompleteSuccess(slot)
    \/ \E slot \in 1..MaxProcs : CompleteFailure(slot)

SpecCascade == InitCascade /\ [][NextCascade]_vars

\* The media cache: files are deleted by name and the directory is listed.
InitUnlink ==
    /\ InitController(<<>>, {}, TRUE)
    /\ localStorage = EmptyStorage
    /\ call = NoCall
    /\ mediaDir \in RefDirectories
    /\ stream = NoStream

NextUnlink ==
    \/ DeleteImageCall
    \/ ListImagesCall

SpecUnlink == InitUnlink /\ [][NextUnlink]_vars

\* ================================================================ properties
\* the invocations of handleSend / handleRetry that have not completed
InFlight == {slot \in 1..MaxProcs : procs[slot].pc # "free"}

\* a step in which the gateway call of the invocation in slot completes
Completes(slot) == procs[slot].pc = "calling" /\ procs'[slot].pc = "free"

\* a text the gateway produced as a reply
IsReplyText(t) == Len(t) = 2 /\ t[1] = "reply to"

\* the formatted error messages
ErrorTexts == {ResultErrorText, SendThrowText, ThrowText}

\* C1: at most one generation request per conversation is ever in flight: a
\* send or a retry invoked while an earlier one on the same conversation has
\* not completed is ignored, so no two pending invocations share a session.
C1_OneRequestPerConversation ==
    \A p \in InFlight : \A q \in InFlight :
        p # q => procs[p].chatId # procs[q].chatId

\* C2: when the gateway call of a send or a retry fails (success=false or a
\* thrown error), the error message is also written to the session's
\* persisted record: after the step the persisted transcript of the request's
\* session ends with the error turn.
C2_FailurePersisted ==
    [][\A slot \in 1..MaxProcs :
          (/\ CompleteFailure(slot) \/ CompleteThrow(slot)
           /\ HasChat(chats, procs[slot].chatId))
          => LET log == ChatOf(chats', procs[slot].chatId).messages
             IN /\ HasChat(chats', procs[slot].chatId)
                /\ log # <<>>
                /\ Last(log).role = "model"
                /\ Last(log).content \in ErrorTexts]_vars

\* C3: results are never misattributed: a reply produced for session A is
\* never in the in-memory transcript shown for another session B, nor in B's
\* persisted record.
C3_NoMisattribution ==
    /\ activeChatId # NoChat =>
          \A i \in 1..Len(messages) :
              IsReplyText(messages[i].content)
                  => messages[i].content = ReplyText(activeChatId)
    /\ \A k \in 1..Len(chats) : \A i \in 1..Len(chats[k].messages) :
          IsReplyText(chats[k].messages[i].content)
              => chats[k].messages[i].content = ReplyText(chats[k].id)

\* C4: a successful completion of a request issued for session A writes the
\* history sent plus the model reply to A's persisted record, whichever
\* session is active at that time, and changes the persisted messages of no
\* other session.
C4_CompletionKeyedBySession ==
    [][\A slot \in 1..MaxProcs :
          CompleteSuccess(slot)
          => LET A == procs[slot].chatId
             IN /\ ChatIds(chats') = ChatIds(chats)
                /\ HasChat(chats, A) =>
                      ChatOf(chats', A).messages
                          = Append(procs[slot].history, Reply(A))
                /\ \A c \in ChatIds(chats) \ {A} :
                      ChatOf(chats', c).messages = ChatOf(chats, c).messages]_vars

\* C4 witness: the reply to session 2 has been written to session 2 while
\* session 1 was the active one (its transcript on screen received the reply).
C4_Witness ==
    /\ activeChatId = 1
    /\ HasChat(chats, 2)
    /\ ChatOf(chats, 2).messages # <<>>
    /\ Last(ChatOf(chats, 2).messages) = Reply(2)
    /\ messages # <<>>
    /\ Last(messages) = Reply(2)
    /\ InFlight = {}

\* C5: a send with no active session creates exactly one new session, and
\* when its turn completes - successfully or not - that session is titled
\* from the first 30 characters of the message text and holds exactly two
\* messages, the user turn followed by one model turn.
C5_NewSessionTwoMessages ==
    [][\A slot \in 1..MaxProcs :
          /\ (procs[slot].pc = "free" /\ procs'[slot].pc # "free"
                /\ procs'[slot].created)
             => Len(chats') = Len(chats) + 1
          /\ (Completes(slot) /\ procs[slot].created
                /\ HasChat(chats', procs[slot].chatId))
             => LET c == ChatOf(chats', procs[slot].chatId)
                IN /\ c.title = Slice(procs[slot].userMsg, TitleLen)
                   /\ Len(c.messages) = 2
                   /\ c.messages[1].role = "user"
                   /\ c.messages[2].role = "model"]_vars

\* C6: when a retry on a user turn at index i completes, the session has
\* exactly i+2 messages - the kept turns 0..i, unchanged, plus one model turn.
C6_RetryUserTurn ==
    [][\A slot \in 1..MaxProcs :
          (/\ Completes(slot)
           /\ procs[slot].kind = "retry"
           /\ procs[slot].target = "user"
           /\ HasChat(chats, procs[slot].chatId))
          => LET kept == procs[slot].history
                 log == ChatOf(chats', procs[slot].chatId).messages
             IN /\ HasChat(chats', procs[slot].chatId)
                /\ Len(log) = Len(kept) + 1
                /\ SubSeq(log, 1, Len(kept)) = kept
                /\ Last(log).role = "model"]_vars

\* C7: a retry on a model turn at index i regenerates from turns 0..i-1, and
\* only when turn i-1 exists and is a user turn; no retry on any other model
\* turn issues a gateway call or changes a transcript.
C7_RetryModelTurn ==
    [][\A index \in 1..Len(messages) :
          (messages[index].role = "model" /\ Retry(index))
          => /\ index > 1
             /\ messages[index - 1].role = "user"
             /\ messages' = Append(SubSeq(messages, 1, index - 1), Placeholder)
             /\ calls' = calls + 1
             /\ chats' = chats
             /\ \E slot \in 1..MaxProcs :
                   /\ procs[slot].pc = "free"
                   /\ procs'[slot].pc = "calling"
                   /\ procs'[slot].history = SubSeq(messages, 1, index - 1)]_vars

\* C7 witness: a retry invoked on a model turn is regenerating: the transcript
\* is the turns before the target plus the placeholder.
C7_Witness ==
    \E slot \in 1..MaxProcs :
        /\ procs[slot].pc = "calling"
        /\ procs[slot].kind = "retry"
        /\ procs[slot].target = "model"
        /\ Len(procs[slot].history) = 3
        /\ messages = Append(procs[slot].history, Placeholder)

\* C8: edit(i) resolves to a user turn u (i itself, or i-1 for a model turn
\* that follows a user turn, else nothing happens), puts turn u's text into
\* the input, truncates the transcript to the turns before u in memory and in
\* the persisted record, replaces no turn in place, issues no gateway call.
C8_EditRewinds ==
    [][\A index \in 1..Len(messages) :
          Edit(index)
          => LET u == IF messages[index].role = "user" THEN index
                      ELSE IF index > 1 /\ messages[index - 1].role = "user"
                           THEN index - 1
                           ELSE 0
             IN /\ calls' = calls
                /\ procs' = procs
                /\ \A k \in 1..Len(messages') :
                      k <= Len(messages) /\ messages'[k] = messages[k]
                /\ IF u = 0
                   THEN UNCHANGED <<messages, input, chats>>
                   ELSE /\ input' = messages[u].content
                        /\ messages' = SubSeq(messages, 1, u - 1)
                        /\ HasChat(chats, activeChatId) =>
                              ChatOf(chats', activeChatId).messages
                                  = SubSeq(messages, 1, u - 1)]_vars

\* C8 witness: an edit invoked on the last model turn of a four-turn session
\* has put the preceding user turn's text into the input and left two turns
\* in memory and in the persisted record.
C8_Witness ==
    /\ activeChatId = 1
    /\ input = Hi
    /\ Len(messages) = 2
    /\ HasChat(chats, 1)
    /\ ChatOf(chats, 1).messages = messages

\* C9: once deletePersona(P) completes, no persisted session has gemId P, P
\* is absent from the persona catalog, every session not linked to P is still
\* present with unchanged messages, and a cache delete has been issued for
\* every cache reference of the sessions the cascade removed.
C9_CascadePostcondition ==
    [][/\ \A P \in 1..MaxGems :
            (P \in gems /\ P \notin gems')
            => /\ \A k \in 1..Len(chats') : chats'[k].gemId # P
               /\ \A k \in 1..Len(chats) :
                     chats[k].gemId # P
                     => /\ HasChat(chats', chats[k].id)
                        /\ ChatOf(chats', chats[k].id).messages = chats[k].messages
       /\ \A k \in 1..Len(chats) :
            ((del' # del \/ gems' # gems) /\ ~HasChat(chats', chats[k].id))
            => ImagesToDelete(chats[k].messages) \subseteq cacheDeletes']_vars

\* C10: in every reachable state, every persisted session whose gemId is set
\* references a persona that exists in the persona catalog.
C10_GemIdReferencesPersona ==
    \A k \in 1..Len(chats) : chats[k].gemId # NoGem => chats[k].gemId \in gems

\* the attachments of a transcript
AllImages(msgs) ==
    UNION {{msgs[i].images[j] : j \in 1..Len(msgs[i].images)} : i \in 1..Len(msgs)}

\* C11: deleteSession(S) issues a cache delete for exactly the cache
\* references among the attachments of S's messages (none for inline
\* encodings or for media of other sessions), then removes S and only S from
\* the persisted catalog, and clears the active-session pointer if S was
\* active when it was invoked.
C11_DeleteSession ==
    [][\A id \in 1..MaxChats :
          /\ (DeleteChatNow(id) \/ DeleteChatStart(id))
             => cacheDeletes' =
                   cacheDeletes \cup
                   {img[2] : img \in {x \in AllImages(ChatOf(chats, id).messages) :
                                         x[1] = "gemini-media://"}}
          /\ (DeleteChatNow(id) \/ (DeleteChatFinish /\ delChat.id = id))
             => /\ chats' = SelectSeq(chats, LAMBDA c : c.id # id)
                /\ DeleteChatFinish => cacheDeletes' = cacheDeletes
                /\ LET active == IF delChat.pc = "awaiting" THEN delChat.active
                                 ELSE activeChatId
                   IN active = id => activeChatId' = NoChat]_vars

\* C11 witness: session 1, which held a cached and an inline attachment, has
\* been deleted: one cache delete was issued, session 2 and its cached media
\* are untouched.
C11_Witness ==
    /\ cacheDeletes = {1}
    /\ chats = <<MediaSession(2)>>
    /\ delChat.pc = "idle"
    /\ activeChatId = NoChat

\* C12: changeModel(m) while session S is active stores m as S's persisted
\* model override; no send, retry, edit, selection or change of the default
\* model clears or alters a stored override; and every send or retry invoked
\* on a session that has an override uses that override.
C12_ModelOverride ==
    [][/\ \A m \in Models :
            (ModelChange(m) /\ HasChat(chats, activeChatId))
            => ChatOf(chats', activeChatId).modelId = m
       /\ \A id \in 1..MaxChats :
            (/\ HasChat(chats, id) /\ HasChat(chats', id)
             /\ ChatOf(chats, id).modelId # NoModel
             /\ ~(activeChatId = id /\ \E m \in Models : ModelChange(m)))
            => ChatOf(chats', id).modelId = ChatOf(chats, id).modelId
       /\ \A slot \in 1..MaxProcs :
            (/\ procs[slot].pc = "free" /\ procs'[slot].pc # "free"
             /\ HasChat(chats, procs'[slot].chatId)
             /\ ChatOf(chats, procs'[slot].chatId).modelId # NoModel)
            => procs'[slot].model = ChatOf(chats, procs'[slot].chatId).modelId]_vars

\* C12 witness: session 1 was given the override "pro", the user went to
\* session 2 and chose "flash" there, came back to session 1, and a request
\* for session 1 is in flight with "pro".
C12_Witness ==
    /\ HasChat(chats, 1) /\ ChatOf(chats, 1).modelId = "pro"
    /\ HasChat(chats, 2) /\ ChatOf(chats, 2).modelId = "flash"
    /\ activeChatId = 1
    /\ \E slot \in 1..MaxProcs :
          /\ procs[slot].pc = "calling"
          /\ procs[slot].chatId = 1
          /\ procs[slot].model = "pro"

\* C13: no attachment of an outgoing message is lost: for a send with k
\* attachments the recorded user message carries exactly k attachments in the
\* original order, the i-th being the cache reference of its save or, when
\* that save failed, its original inline encoding.
C13_NoAttachmentLost ==
    [][\A slot \in 1..MaxProcs :
          (procs[slot].pc = "saving" /\ procs'[slot].pc = "calling")
          => LET sent == procs[slot].atts
                 recorded == Last(procs'[slot].history).images
             IN /\ Len(recorded) = Len(sent)
                /\ \A i \in 1..Len(sent) :
                      recorded[i] \in {CacheRef(procs[slot].files[i]), sent[i]}]_vars

\* C14: a send or retry attempted with no active credential only opens the
\* settings: while no credential is active no invocation starts, no session
\* is created, no attachment is saved and no new gateway call is issued, and
\* the attempt itself leaves the transcripts, the input and the controller's
\* flags as they were.
C14_NoCredential ==
    [][/\ ~apiKey =>
            /\ \A slot \in 1..MaxProcs :
                  procs[slot].pc = "free" => procs'[slot].pc = "free"
            /\ nextChat' = nextChat
            /\ nextFile' = nextFile
            /\ calls' # calls =>
                  \E slot \in 1..MaxProcs :
                      procs[slot].pc = "saving" /\ procs'[slot].pc = "calling"
       /\ (SendNoKey \/ \E index \in 1..Len(messages) : RetryNoKey(index))
            => /\ showSettings'
               /\ UNCHANGED <<chats, messages, input, attachments, loading,
                              isGenerating, procs, calls, nextFile, nextChat>>]_vars

\* C14 witness: a message with an attachment was sent without a credential:
\* the settings are open, the message is still in the input surface, nothing
\* was created, saved or called.
C14_Witness ==
    /\ ~apiKey
    /\ showSettings
    /\ input = SpHi
    /\ attachments # <<>>
    /\ chats = <<>>
    /\ messages = <<>>
    /\ calls = 0
    /\ nextFile = 1

\* the getter of a blob and the preceding save of the same blob
IsRoundTrip(save, get) ==
    /\ call.op = save /\ call.wrote = "full"
    /\ call'.op = get /\ ~call'.threw

C16_SaveNeverThrows ==
    call.op \in {"saveChats", "saveSettings", "saveGems"} => ~call.threw

\* C17: list() returns exactly the references of the directory entries whose
\* extension is in the allow-list and whose size is non-zero, ordered by
\* modification time descending; a missing directory yields an empty list
\* with success.
C17_ListImages ==
    call.op = "listImages" =>
       LET images == call.ret.v.images
           kept == {e \in {mediaDir.entries[i] : i \in 1..Len(mediaDir.entries)} :
                      /\ ToLowerCase(e.file[2]) \in ValidExtensions
                      /\ e.size > 0}
           MtimeOf(ref) == (CHOOSE e \in kept : e.file = ref[2]).mtime
       IN /\ call.ret.v.success
          /\ ~mediaDir.exists => images = <<>>
          /\ {images[i] : i \in 1..Len(images)} = {<<"gemini-media://", e.file>> : e \in kept}
          /\ Len(images) = Cardinality(kept)
          /\ \A i \in 1..Len(images) : \A j \in 1..Len(images) :
                i < j => MtimeOf(images[i]) >= MtimeOf(images[j])

\* C17 witness: a directory with a zero-byte file, a .txt file and two valid
\* .png files has been listed: exactly the two .png references, newest first.
C17_Witness ==
    /\ mediaDir = Dir(<<Entry("a", ".png", 10, 1), Entry("zero", ".png", 0, 3),
                        Entry("note", ".txt", 10, 4), Entry("b", ".png", 10, 2)>>)
    /\ call.op = "listImages"
    /\ call.ret.v.images = <<CacheRef(<<"b", ".png">>), CacheRef(<<"a", ".png">>)>>

\* a path strictly below the media directory
InsideMediaDir(p) == IsPrefix(ImagesDir, p) /\ p # ImagesDir
\* a name that leaves the media directory when joined to it
Escapes(name) == ~InsideMediaDir(Join(ImagesDir, name))
\* a name of one plain segment
WellFormed(name) ==
    Len(name) = 1 /\ name[1] \notin {DotDot, EmptySeg, EncodedDotDot, MalformedSeg}

\* C18: resolve returns bytes only for a file inside the media directory,
\* answers 404 for a well-formed reference to a missing file, and answers 400
\* for a malformed or directory-escaping reference such as "../../etc/passwd".
C18_ResolveRejectsTraversal ==
    call.op = "resolve" =>
       LET name == call.arg.v
           response == call.ret.v
       IN /\ response.status = 200 =>
                \A p \in response.reads : InsideMediaDir(p)
          /\ (WellFormed(name) /\ ~ExistsSync(mediaDir, Append(ImagesDir, name[1])))
                => response.status = 404
          /\ (~DecodeThrows(name) /\ Escapes(DecodeURI(name)))
                => response.status = 400

\* C19: download-media, copy-image and the history hydration read only files
\* inside the media directory, whatever the reference.
C19_ReadsInsideMediaDir ==
    call.op \in {"download-media", "copy-image", "hydrate"} =>
       \A p \in call.ret.v.reads : InsideMediaDir(p)

\* the first n submissions were rejected with a rate-limit error
RateLimited(n) ==
    /\ Len(stream.errors) >= n
    /\ \A i \in 1..n : IsRateLimit(stream.errors[i])

RECURSIVE SumSeq(_)
SumSeq(seq) == IF seq = <<>> THEN 0 ELSE Head(seq) + SumSeq(Tail(seq))

\* C20: a call whose submission is rejected with a rate-limit error three
\* times in a row makes a 4th submission after waiting 2 s, 4 s and 8 s
\* (14 s in all); when the 4th succeeds the call returns success with the
\* payload of that submission, having made exactly 4 submissions.
C20_FourthAttempt ==
    RateLimited(3) =>
       /\ stream.pc = "waiting" => stream.waited = <<2000, 4000>> /\ stream.delay = 8000
       /\ stream.pc # "waiting" => stream.waited = <<2000, 4000, 8000>>
       /\ stream.pc = "done" => stream.submissions = 4
       /\ (stream.pc = "done" /\ Len(stream.errors) = 3 /\ stream.result.error # "stream") =>
             /\ stream.result = [success |-> TRUE, payload |-> 4, error |-> ""]
             /\ SumSeq(stream.waited) >= 14000

\* C20 witness: three rate-limit rejections, then a 4th submission that
\* succeeded and was returned.
C20_Witness ==
    /\ RateLimited(3)
    /\ stream.pc = "done"
    /\ stream.submissions = 4
    /\ stream.result.success
    /\ stream.waited = <<2000, 4000, 8000>>

\* the delays waited out so far and the one being waited
DelaysSoFar ==
    stream.waited \o (IF stream.pc = "waiting" THEN <<stream.delay>> ELSE <<>>)

\* what holds of the retry loop in every state
RetryLoopBounded ==
    /\ stream.retryCount <= MaxRetries
    /\ stream.submissions <= MaxRetries + 1
    /\ IsPrefix(DelaysSoFar, <<2000, 4000, 8000>>)
    /\ Len(DelaysSoFar) = stream.retryCount
    /\ \A i \in 1..(Len(stream.errors) - 1) : IsRateLimit(stream.errors[i])
    /\ (stream.pc = "done" /\ Len(stream.errors) = stream.submissions) =>
          stream.result = [success |-> FALSE, payload |-> 0,
                           error |-> Last(stream.errors).message]
    /\ (stream.errors # <<>> /\ ~IsRateLimit(stream.errors[1])) =>
          /\ stream.pc = "done"
          /\ stream.submissions = 1
          /\ DelaysSoFar = <<>>
    /\ (Len(stream.errors) = MaxRetries + 1) =>
          stream.pc = "done" /\ ~stream.result.success

\* C21: rate-limited submissions are retried after 2 s, 4 s and 8 s, at most
\* 3 times (4 submissions in all); then the error is returned as a failed
\* result; an error that is not a rate limit is returned at once; the loop
\* ends for every sequence of responses.
C21_RetryTerminates ==
    /\ []RetryLoopBounded
    /\ (stream.pc = "submitting") ~> (stream.pc = "done")

\* C21 witness: four rate-limit rejections in a row, the last one returned
\* as a failed result after the three delays.
C21_Witness ==
    /\ stream.pc = "done"
    /\ Len(stream.errors) = 4
    /\ \A i \in 1..4 : IsRateLimit(stream.errors[i])
    /\ stream.waited = <<2000, 4000, 8000>>
    /\ ~stream.result.success

\* a step in which the invocation in slot starts and creates its session
CreatesSession(slot) ==
    procs[slot].pc = "free" /\ procs'[slot].pc # "free" /\ procs'[slot].created

\* C22: startPersonaConversation(P) clears the active-session pointer (and
\* with it the transcript of the session that was active), binds the
\* conversation to P and adds no session to the catalog; a session is added only by a send that starts; the first send of
\* the conversation bound to P creates exactly one session, whose gemId is
\* P, and its request carries P's instruction.
C22_PersonaConversation ==
    [][/\ \A g \in 1..MaxGems :
          StartGemChat(g) =>
             /\ activeChatId' = NoChat
             /\ activeChatId # NoChat => messages' = <<>>
             /\ currentGemId' = g
             /\ chats' = chats
       /\ Len(chats') > Len(chats) => \E slot \in 1..MaxProcs : CreatesSession(slot)
       /\ \A slot \in 1..MaxProcs :
             (CreatesSession(slot) /\ currentGemId # NoGem) =>
                /\ Len(chats') = Len(chats) + 1
                /\ ~HasChat(chats, procs'[slot].chatId)
                /\ HasChat(chats', procs'[slot].chatId)
                /\ ChatOf(chats', procs'[slot].chatId).gemId = currentGemId
                /\ \A k \in 1..Len(chats) : chats'[k + 1] = chats[k] \/ chats'[k] = chats[k]
                /\ procs'[slot].instr = <<"instruction of gem", currentGemId>>]_vars

\* C22 witness: the first send of a conversation bound to persona 1 is under
\* way on the one session of the catalog, which is linked to persona 1.
C22_Witness ==
    /\ currentGemId = 1
    /\ Len(chats) = 1
    /\ chats[1].gemId = 1
    /\ activeChatId = chats[1].id
    /\ \E slot \in 1..MaxProcs :
          /\ procs[slot].pc = "calling"
          /\ procs[slot].created
          /\ procs[slot].chatId = chats[1].id
          /\ procs[slot].instr = GemInstruction(1)

\* the steps that may shorten the persisted transcript of session id: the
\* completion of a retry on it, and an edit while it is active
RetryCompletes(id) ==
    \E slot \in 1..MaxProcs :
       Completes(slot) /\ procs[slot].kind = "retry" /\ procs[slot].chatId = id
Edits(id) == activeChatId = id /\ \E index \in 1..Len(messages) : Edit(index)

\* C23: every step leaves the persisted transcript of every session with a
\* prefix of what it was, followed by what the step appended: the completion
\* of a retry keeps a prefix and appends at most one message, an edit keeps a
\* prefix, and every other step keeps the whole transcript and only appends.
C23_TranscriptOrdering ==
    [][\A id \in 1..MaxChats :
          (HasChat(chats, id) /\ HasChat(chats', id)) =>
             LET old == ChatOf(chats, id).messages
                 new == ChatOf(chats', id).messages
             IN IF RetryCompletes(id)
                   THEN IsPrefix(new, old) \/ (new # <<>> /\ IsPrefix(Front(new), old))
                ELSE IF Edits(id) THEN IsPrefix(new, old)
                ELSE IsPrefix(old, new)]_vars

\* C24: in the cascade of deletePersona(P) a linked session that has cache
\* media is removed only by the step that resumes from its awaited deletes,
\* which were issued before; every such step removes its session, whatever
\* the deletes answered, and goes on; P is removed only by a step after which
\* none of the linked sessions is left.
C24_CascadeOrdering ==
    [][/\ \A k \in 1..Len(del.todo) :
             LET c == del.todo[k]
             IN (HasChat(chats, c.id) /\ ~HasChat(chats', c.id) /\ CleanupAwaits(c)) =>
                   /\ del.pc = "awaiting"
                   /\ k = 1
                   /\ ImagesToDelete(c.messages) \subseteq cacheDeletes
       /\ (del.pc = "awaiting" /\ del' # del) =>
             /\ ~HasChat(chats', Head(del.todo).id)
             /\ del'.pc = "awaiting" \/ del.gemId \notin gems'
       /\ \A P \in 1..MaxGems :
             (P \in gems /\ P \notin gems') =>
                \A id \in (IF del.pc = "awaiting" THEN del.ids
                           ELSE ChatIds(ChatsToDelete(chatList, P))) :
                   ~HasChat(chats', id)]_vars

\* C24 witness: a cascade over two linked sessions with cache media has
\* ended: both sessions and the persona are gone, the deletes of both were
\* issued.
C24_Witness ==
    /\ del.pc = "idle"
    /\ gems = {}
    /\ chats = <<>>
    /\ cacheDeletes = {FileNameOf(CacheRef(1)), FileNameOf(CacheRef(2))}

\* the three getters: their key, the shape they accept in plain text and
\* their default
Getters ==
    {[op |-> "getChats", key |-> CHATS_KEY, shapes |-> {"array"},
      default |-> JsArray(<<>>)],
     [op |-> "getSettings", key |-> SETTINGS_KEY, shapes |-> {"object"},
      default |-> JsObject(DefaultSettings)],
     [op |-> "getGems", key |-> GEMS_KEY, shapes |-> {"array"},
      default |-> JsArray(<<>>)]}

\* C25: a getter returns the decrypted value when the item decrypts; when it
\* does not but parses as plain text of the expected shape it returns that
\* value and replaces the item by its encrypted form, which the next load
\* decrypts to the same value; otherwise, or with no item, it returns the
\* default, raises nothing and leaves the store as it was.
C25_LoadLifecycle ==
    [][\A g \in Getters :
          call'.op = g.op =>
             LET raw == localStorage[g.key]
                 decrypted == IF raw = NoItem THEN JsNull ELSE Decrypt(raw)
                 plain == IF raw = NoItem THEN JsNull ELSE ParsePlain(raw)
             IN /\ ~call'.threw
                /\ IF Truthy(decrypted)
                      THEN /\ call'.ret.kind = decrypted.kind
                           /\ call'.ret.v = decrypted.v
                           /\ localStorage' = localStorage
                   ELSE IF plain.kind \in g.shapes
                      THEN /\ call'.ret.kind = plain.kind
                           /\ call'.ret.v = plain.v
                           /\ localStorage'[g.key] = Encrypt(plain)
                           /\ Decrypt(localStorage'[g.key]).v = plain.v
                   ELSE /\ call'.ret.kind = g.default.kind
                        /\ call'.ret.v = g.default.v
                        /\ localStorage' = localStorage]_vars

\* C26: when the first write of saveChats fails and the retry succeeds, the
\* stored catalog has the same sessions in the same order with the same id,
\* title, model override and persona link, and each session has the same
\* messages in the same order with the same role and content, without
\* attachments; when the retry fails too the stored item is left as it was;
\* when the first write succeeds the catalog is stored whole.
C26_DegradedWrite ==
    [][call'.op = "saveChats" =>
          LET cs == call'.arg.v
              stored == Decrypt(localStorage'[CHATS_KEY]).v
          IN /\ call'.wrote = "full" => localStorage'[CHATS_KEY] = Encrypt(JsArray(cs))
             /\ call'.wrote = "nothing" => localStorage' = localStorage
             /\ call'.wrote = "lite" =>
                   /\ Decrypt(localStorage'[CHATS_KEY]).kind = "array"
                   /\ Len(stored) = Len(cs)
                   /\ \A i \in 1..Len(cs) :
                         /\ stored[i].id = cs[i].id
                         /\ stored[i].title = cs[i].title
                         /\ stored[i].modelId = cs[i].modelId
                         /\ stored[i].gemId = cs[i].gemId
                         /\ Len(stored[i].messages) = Len(cs[i].messages)
                         /\ \A m \in 1..Len(cs[i].messages) :
                               /\ stored[i].messages[m].role = cs[i].messages[m].role
                               /\ stored[i].messages[m].content = cs[i].messages[m].content
                               /\ stored[i].messages[m].images = <<>>
             /\ \A k \in StorageKeys \ {CHATS_KEY} : localStorage'[k] = localStorage[k]]_vars

\* C26 witness: a catalog of two sessions, the first with attachments, was
\* saved by the retry: it is stored without the attachments.
C26_Witness ==
    /\ call.op = "saveChats"
    /\ call.wrote = "lite"
    /\ call.arg = JsArray(<<MediaSession(1), OldSession(2, NoGem)>>)
    /\ Decrypt(localStorage[CHATS_KEY]).v[1].messages[1] = UserMsg(Hi, <<>>)
    /\ Len(Decrypt(localStorage[CHATS_KEY]).v) = 2

\* C27: delete(filename) removes no file outside the media directory: when
\* the joined path is not inside it - a path in a directory next to it whose
\* name starts with "images" included - the answer is {success: false,
\* error: 'Access denied'} and nothing is unlinked; a name that does not
\* exist is answered with success and nothing changes.
C27_DeleteStaysInside ==
    [][call'.op = "deleteImage" =>
          LET filePath == Join(ImagesDir, call'.arg.v)
              answer == call'.ret.v
          IN /\ \A p \in Files(mediaDir) \ Files(mediaDir') : InsideMediaDir(p)
             /\ ~IsPrefix(ImagesDir, filePath) =>
                   /\ ~answer.success
                   /\ answer.error = "Access denied"
                   /\ mediaDir' = mediaDir
             /\ (InsideMediaDir(filePath) /\ ~ExistsSync(mediaDir, filePath)) =>
                   /\ answer.success
                   /\ mediaDir' = mediaDir]_vars

\* the requests that submit a user turn: a send, or a retry on a user turn
SubmitsUserTurn(p) ==
    /\ p.pc = "calling"
    /\ p.kind = "send" \/ (p.kind = "retry" /\ p.target = "user")

\* C28: the new turn of a send or of a retry on a user turn is submitted
\* with one content part for each of its attachments, inline or cached, all
\* of them before the text part, and with an empty text part when it has
\* neither text nor attachment, so that the parts are never empty.
C28_NewTurnSubmitted ==
    \A slot \in 1..MaxProcs :
       SubmitsUserTurn(procs[slot]) =>
          LET user == Last(procs[slot].history)
              parts == SubmittedParts(procs[slot])
              media == {k \in 1..Len(parts) : parts[k].kind = "inlineData"}
              texts == {k \in 1..Len(parts) : parts[k].kind = "text"}
          IN /\ parts # <<>>
             /\ Cardinality(media) = Len(user.images)
             /\ \A i \in 1..Len(user.images) :
                   /\ i \in media
                   /\ parts[i].of = user.images[i]
             /\ \A k \in media : \A j \in texts : k < j
             /\ (user.content = <<>> /\ user.images = <<>>) =>
                   (Len(parts) = 1 /\ parts[1].kind = "text" /\ parts[1].of = <<>>)

\* the cache references of a turn that are converted, and those with a file
TurnRefs(m) ==
    IF m.role = "model" THEN {}
    ELSE {i \in 1..Len(m.images) : StartsWith(m.images[i], CachePrefix)}
Resolvable(m) ==
    {i \in TurnRefs(m) : SourcePath(m.images[i]) \in Files(mediaDir)}

\* C29: in the history handed to the hosted API every cache reference with a
\* file is replaced by inline data of that file with the MIME type of its
\* extension, every reference without a file by a textual placeholder part
\* in the same turn, the call does not fail, and no part carries the local
\* cache scheme.
C29_HistoryRehydrated ==
    call.op = "history" =>
       /\ ~call.threw
       /\ \A t \in 1..Len(call.arg.v) :
             LET m == call.arg.v[t]
                 parts == call.ret.v[t].parts
             IN /\ \A k \in 1..Len(parts) : parts[k].kind \in {"text", "inlineData"}
                /\ \A i \in Resolvable(m) :
                      \E k \in 1..Len(parts) :
                         /\ parts[k].kind = "inlineData"
                         /\ "mimeType" \in DOMAIN parts[k]
                         /\ parts[k].of = {SourcePath(m.images[i])}
                         /\ parts[k].mimeType =
                               MimeType(ToLowerCase(ExtName(
                                  Last(FileNameOf(m.images[i])))))
                /\ Cardinality({k \in 1..Len(parts) :
                                   /\ parts[k].kind = "text"
                                   /\ parts[k].of = ImageRemoved})
                      = Cardinality(TurnRefs(m) \ Resolvable(m))

\* the helper invocations a call has to have made after n function calls
RECURSIVE KnownCalls(_, _)
KnownCalls(received, n) ==
    IF n = 0 THEN <<>>
    ELSE IF received[n] \in {"generate_image", "generate_video"}
            THEN Append(KnownCalls(received, n - 1), n)
    ELSE KnownCalls(received, n - 1)

\* C30: the tool received of a response are executed once each, in the order
\* received, with the fixed model id of their modality; the references of
\* the successful ones are returned in that order with the text; the chat
\* model is not invoked again; an unknown tool gives no media and no error.
C30_ToolDispatch ==
    stream.pc = "executing" \/ (stream.pc = "done" /\ stream.allFunctionCalls # <<>>) =>
       LET received == stream.allFunctionCalls
           known == KnownCalls(received, stream.step)
           executed == stream.executed
           saved == SelectSeq(executed, LAMBDA e : e.outcome = "saved")
           threw == SelectSeq(executed, LAMBDA e : e.outcome = "threw")
       IN /\ Len(executed) = Len(known)
          /\ \A i \in 1..Len(executed) :
                /\ executed[i].call = known[i]
                /\ executed[i].name = received[known[i]]
                /\ executed[i].name = "generate_image" =>
                      executed[i].model = "imagen-4.0-generate-001"
                /\ executed[i].name = "generate_video" =>
                      executed[i].model = "veo-3.1-generate-001"
          /\ stream.generatedImages = [i \in 1..Len(saved) |-> saved[i].call]
          /\ Len(SelectSeq(stream.fullText, LAMBDA t : t = ToolFailed)) = Len(threw)
          /\ stream.submissions = Len(stream.errors) + 1
          /\ stream.pc = "done" =>
                /\ stream.step = Len(received)
                /\ stream.result = Success(stream.submissions)

\* C30 witness: a call of an unknown tool between two tool received whose media
\* were saved: both references are returned, in order, with the text.
C30_Witness ==
    /\ stream.pc = "done"
    /\ stream.allFunctionCalls = <<"generate_video", "unknown_tool", "generate_image">>
    /\ stream.generatedImages = <<1, 3>>
    /\ stream.fullText = <<"text">>
    /\ stream.result.success

\* C31: a generation makes at most two attempts and at most one catalog
\* query; the catalog is queried only after a first attempt that failed with
\* a not-found response; the second attempt is made with the fallback and
\* its failure is returned; after another first failure, or without a
\* candidate in the catalog, the first error is returned with no second
\* attempt.
C31_FallbackBounded ==
    call.op = "generate" =>
       LET g == call.ret.v
           notFound == g.firstError.message = <<"API Error:", "404">>
       IN /\ Len(g.attempts) <= 2
          /\ g.queries <= 1
          /\ g.queries = 1 => notFound
          /\ Len(g.attempts) = 2 =>
                /\ g.queries = 1
                /\ g.listed = "yes"
                /\ g.attempts[2] = NewModelId(Fallback(g.kind, g.models))
                /\ Fallback(g.kind, g.models) \in
                      {g.models[i] : i \in 1..Len(g.models)}
          /\ (g.pc = "done" /\ Len(g.attempts) = 2 /\ ~g.result.success) =>
                g.result.error \in {e.message : e \in AttemptErrors}
          /\ (g.pc = "done" /\ g.firstError # NoError /\ ~notFound) =>
                /\ Len(g.attempts) = 1
                /\ g.result = Failure(g.firstError.message)
          /\ (g.pc = "done" /\ g.listed = "yes"
                /\ \A i \in 1..Len(g.models) :
                      ~Includes(g.models[i],
                                IF g.kind = "image" THEN <<"imagen">> ELSE <<"veo">>)) =>
                /\ Len(g.attempts) = 1
                /\ g.result = Failure(g.firstError.message)

\* C31 witness: the first attempt was answered not found, the catalog was
\* asked once, and the second attempt, made with the fallback, failed: its
\* error was returned.
C31_Witness ==
    /\ call.op = "generate"
    /\ call.ret.v.pc = "done"
    /\ call.ret.v.queries = 1
    /\ Len(call.ret.v.attempts) = 2
    /\ call.ret.v.result = Failure(ApiError("500").message)

\* the generation of a model of the family of a kind: 4.x, 3.x, 2.x or any
\* other for images, 3.1, 3.0, 2.0 or any other for video; 0 outside it
Generation(kind, name) ==
    IF kind = "image"
       THEN IF Includes(name, <<"imagen", "4">>) THEN 4
            ELSE IF Includes(name, <<"imagen", "3">>) THEN 3
            ELSE IF Includes(name, <<"imagen", "2">>) THEN 2
            ELSE IF Includes(name, <<"imagen">>) THEN 1
            ELSE 0
    ELSE IF Includes(name, <<"veo", "3", ".1">>) THEN 4
         ELSE IF Includes(name, <<"veo", "3", ".0">>) THEN 3
         ELSE IF Includes(name, <<"veo", "2", ".0">>) THEN 2
         ELSE IF Includes(name, <<"veo">>) THEN 1
         ELSE 0
IsFast(name) == Includes(name, <<"fast">>)

\* the model selected is of the best generation the catalog lists
BestGeneration(kind, models, selected) ==
    \A i \in 1..Len(models) :
       Generation(kind, models[i]) <= Generation(kind, selected)

\* a "fast" model is selected only when the catalog lists no other model of
\* its generation
NonFastFirst(kind, models, selected) ==
    IsFast(selected) =>
       \A i \in 1..Len(models) :
          Generation(kind, models[i]) = Generation(kind, selected) =>
             IsFast(models[i])

\* C32: the fallback is of the best generation the catalog lists, whatever
\* the order of the catalog, and it is the non-"fast" model of that
\* generation when the catalog lists both.
C32_FallbackPreference ==
    (call.op = "generate" /\ Len(call.ret.v.attempts) = 2) =>
       LET g == call.ret.v
           selected == ModelName(g.attempts[2])
       IN /\ BestGeneration(g.kind, g.models, selected)
          /\ NonFastFirst(g.kind, g.models, selected)

\* C33: the system instruction of a request is the global instruction, a
\* blank line, then the persona instruction when both are non-empty; the one
\* that is non-empty, with no separator, when only one is; empty when both
\* are; the persona instruction never comes first.
C33_InstructionOrder ==
    call.op = "combine" =>
       LET global == call.arg.v[1]
           gem == call.arg.v[2]
           combined == call.ret.v
       IN /\ (global # <<>> /\ gem # <<>>) =>
                /\ Len(combined) = Len(global) + 1 + Len(gem)
                /\ SubSeq(combined, 1, Len(global)) = global
                /\ combined[Len(global) + 1] = "\n\n"
                /\ SubSeq(combined, Len(global) + 2, Len(combined)) = gem
          /\ (global # <<>> /\ gem = <<>>) => combined = global
          /\ (global = <<>> /\ gem # <<>>) => combined = gem
          /\ (global = <<>> /\ gem = <<>>) => combined = <<>>

\* C33 witness: both instructions are non-empty and differ
C33_Witness ==
    /\ call.op = "combine"
    /\ call.arg.v = << <<"be brief">>, <<"be kind">> >>
    /\ call.ret.v = <<"be brief", "\n\n", "be kind">>

\* while the loading flag or the in-flight flag is set a call is awaited
SendingHasRequest ==
    (loading \/ isGenerating) => \E slot \in 1..MaxProcs : procs[slot].pc = "calling"

\* the steps in which handleSend or handleRetry returns: an invocation in
\* flight ends, or a command is answered without a call
Returns ==
    \/ \E slot \in 1..MaxProcs : procs[slot].pc # "free" /\ procs'[slot].pc = "free"
    \/ calls' # calls /\ procs' = procs

\* C34: every send or retry in flight returns once its call is answered or
\* throws, and when it returns the loading flag and the in-flight flag are
\* cleared and the last message in memory is not the placeholder, on every
\* path: success, failure, exception, /list models, /generate and its usage
\* text.
C34_ReturnsToIdle ==
    /\ []SendingHasRequest
    /\ [][Returns =>
             /\ ~loading' /\ ~isGenerating'
             /\ messages' = <<>> \/ ~IsPlaceholder(Last(messages'))]_vars
    /\ \A slot \in 1..MaxProcs :
          (procs[slot].pc # "free") ~> (procs[slot].pc = "free")

\* C34 witness: a retry that set both flags is in flight while the store
\* holds the answer of a /list models command.
C34_Witness ==
    /\ loading /\ isGenerating
    /\ \E slot \in 1..MaxProcs : procs[slot].kind = "retry" /\ procs[slot].pc = "calling"
    /\ \E i \in 1..Len(chats) : \E k \in 1..Len(chats[i].messages) :
          chats[i].messages[k].content = <<"### Available Models (All)">>

\* C35: no persisted transcript holds the placeholder, whatever the
\* interleaving of send, retry, edit, model change and completion.
C35_PlaceholderNotPersisted ==
    \A i \in 1..Len(chats) : \A k \in 1..Len(chats[i].messages) :
       ~IsPlaceholder(chats[i].messages[k])

\* the controller is idle after the step and the session of the invocation
\* that ended is the active one
IdleOnSession(slot) ==
    /\ Completes(slot)
    /\ \A other \in 1..MaxProcs : procs'[other].pc = "free"
    /\ ~crashed'
    /\ activeChatId # NoChat
    /\ activeChatId' = activeChatId
    /\ procs[slot].chatId = activeChatId
    /\ HasChat(chats', activeChatId)

\* C36: when a send or a retry has ended, on the success path and on the
\* failure path, and the controller is idle on the session it was made for,
\* the transcript in memory equals the persisted transcript of that session.
C36_Reconciled ==
    [][\A slot \in 1..MaxProcs :
          IdleOnSession(slot) =>
             messages' = ChatOf(chats', activeChatId).messages]_vars

\* C37: a session that was deleted does not come back: the completion of a
\* request made for a session that is no longer in the catalog leaves the
\* catalog unchanged; the completion of a request for a session of the
\* catalog keeps the number of sessions and the other sessions, and moves
\* that session to the front when it writes it.
C37_NoResurrection ==
    [][/\ \A id \in 1..MaxChats :
             (id < nextChat /\ ~HasChat(chats, id)) => ~HasChat(chats', id)
       /\ \A slot \in 1..MaxProcs :
             Completes(slot) =>
                LET id == procs[slot].chatId
                IN IF ~HasChat(chats, id) THEN chats' = chats
                   ELSE \/ chats' = chats
                        \/ /\ Len(chats') = Len(chats)
                           /\ chats'[1].id = id
                           /\ Tail(chats') = SelectSeq(chats, LAMBDA c : c.id # id)]_vars

\* C37 witness: the request made for session 1 ended after session 1 was
\* deleted while active: session 2 alone is in the catalog, as it was, and
\* the completion found an empty transcript.
C37_Witness ==
    /\ calls = 1
    /\ \A slot \in 1..MaxProcs : procs[slot].pc = "free"
    /\ crashed
    /\ Len(chats) = 1
    /\ chats[1].id = 2
    /\ chats[1].messages = OldSession(2, NoGem).messages

\* C38: every request in flight for a session linked to a persona carries a
\* system instruction that includes the instruction of that persona, also
\* after another session was selected or a new chat started in between.
C38_PersonaBindingDurable ==
    \A slot \in 1..MaxProcs :
       (/\ procs[slot].pc = "calling"
        /\ HasChat(chats, procs[slot].chatId)
        /\ ChatOf(chats, procs[slot].chatId).gemId # NoGem) =>
          Includes(procs[slot].instr,
                   GemInstruction(ChatOf(chats, procs[slot].chatId).gemId))

\* C39: every turn of the history handed to the hosted API has at least one
\* part, a text or inline data, whatever the transcript and whichever cache
\* files are missing.
C39_NoEmptyTurn ==
    call.op = "history" =>
       \A t \in 1..Len(call.ret.v) :
          /\ call.ret.v[t].parts # <<>>
          /\ \A k \in 1..Len(call.ret.v[t].parts) :
                call.ret.v[t].parts[k].kind \in {"text", "inlineData"}

\* C40: after any additions, deletions and selections of credentials from
\* the default settings, the active id is empty exactly when there is no
\* credential and is otherwise the id of one of them; the first credential
\* added becomes active, deleting the active one makes the first remaining
\* one active, deleting another one leaves the active id as it was.
C40_ActiveCredential ==
    /\ [](/\ ModalSettings.activeKeyId = NoKeyId <=> ModalSettings.apiKeys = <<>>
          /\ ModalSettings.apiKeys # <<>> =>
                ModalSettings.activeKeyId \in KeyIds(ModalSettings))
    /\ [][\A n \in 1..MaxCreds :
             /\ (AddKey(n, TRUE, TRUE) /\ ModalSettings.apiKeys = <<>>) =>
                   ModalSettings'.activeKeyId = ApiKey(n).id
             /\ (AddKey(n, TRUE, TRUE) /\ ModalSettings.apiKeys # <<>>) =>
                   ModalSettings'.activeKeyId = ModalSettings.activeKeyId
             /\ DeleteKey(n, TRUE) =>
                   LET rest == SelectSeq(ModalSettings.apiKeys,
                                         LAMBDA k : k.id # ApiKey(n).id)
                   IN /\ ModalSettings'.apiKeys = rest
                      /\ ModalSettings'.activeKeyId =
                            IF ModalSettings.activeKeyId # ApiKey(n).id
                               THEN ModalSettings.activeKeyId
                            ELSE IF rest = <<>> THEN NoKeyId
                            ELSE rest[1].id]_vars

\* C40 witness: of three credentials the active one, added first, was
\* deleted: the first one that remains is active.
C40_Witness ==
    /\ ModalSettings.apiKeys = <<ApiKey(2), ApiKey(3)>>
    /\ ModalSettings.activeKeyId = ApiKey(2).id
    /\ call.op = "saveSettings"
    /\ ~call.threw
    /\ call.arg.v.apiKeys = ModalSettings.apiKeys
====
